---- MODULE Spec2Model ----
(***************************************************************************)
(* A model of the ACP proxy service (src/acp/service.py) and of the two    *)
(* front ends of src/acp/client.py: the direct front end, which drives its *)
(* own agent subprocess, and the socket front end, which talks to the      *)
(* proxy service.                                                          *)
(*                                                                         *)
(* Conventions.  A session id is a positive number; 0 stands for None (and *)
(* for every falsy session id).  The request lock and the attached         *)
(* ActiveRequest are 0 when free / None, else the connection that holds    *)
(* them.  The agent subprocess is an external collaborator: each of its    *)
(* answers is drawn from the set of outcomes the call can produce.         *)
(* An option id is a string; "none" stands for None (and for every falsy   *)
(* option id).                                                             *)
(*                                                                         *)
(* Granularity.  asyncio tasks run until they await.  An action is the     *)
(* code a task executes from one suspension to the next.  The await of     *)
(* writer.drain() inside _send_message changes nothing a task reads, so a  *)
(* write and the code that follows it up to the next agent call, socket    *)
(* read or wait_closed() form one action.  The one exception is the last   *)
(* write of handle_client's try/except (the done message, or the error     *)
(* message when no done follows): while it drains the ActiveRequest is     *)
(* still attached and the agent connection may deliver further events, so  *)
(* the handler rests there (position "finishing") before its "finally".    *)
(***************************************************************************)
EXTENDS Naturals, Sequences, FiniteSets, TLC

\* Number of client connections the service accepts in a run.
NumConns == 2
\* Number of agent_message_chunk updates the agent emits for one cycle.
MaxChunks == 1
\* Number of permission requests the agent raises in one cycle.
MaxPerms == 2
\* Number of lines of a client the service holds unprocessed (unread lines
\* and queued permission answers).
MaxUnread == 2

Conns == 1..NumConns
ChatIds == {"a", "b"}
Modes == {"none", "m"}

VARIABLES
    \* ---- proxy service (service.py) ----
    lock,       \* request_lock: 0 or the connection whose handler holds it
    active,     \* AcpServiceClient._active: 0 or the attached connection
    pc,         \* handle_client's position, per connection
    aw,         \* _send_prompt's locals while it awaits the agent
    hsid,       \* handle_client's local session_id
    listener,   \* listener task: "none", "running", "done", "cancelled"
    pq,         \* ActiveRequest.permission_queue
    sent,       \* messages the service wrote to the connection, in order
    wclosed,    \* writer.close() was called on the connection
    calls,      \* agent calls issued for the connection, in order
    outs,       \* class of the agent's answer to each call, in order
    made,       \* sessions the agent created during the connection's cycle
    chunks,     \* agent chunks emitted during the connection's cycle
    outcome,    \* how the cycle ended: "none", "ok", "error", "cancelled"
    busyAt,     \* the lock was held when handle_client started
    req,        \* the prompt message handle_client read
    \* ---- socket client (client.py run_via_socket) ----
    cpc,        \* "idle", "connected", "reading", "closed"
    cchat,      \* args.chat_id
    csid,       \* the session id store.get returned (0: no mapping)
    cin,        \* lines written by the client the service has not read yet
    cgot,       \* session id persisted on receipt of done (0: none)
    store,      \* the mapping store the socket front end uses
    \* ---- direct front end (client.py run) ----
    dpc,        \* "idle", "agent", "returned", "raised"
    daw,        \* _send_prompt's locals while it awaits the agent
    dchat,      \* args.chat_id
    dcalls,     \* agent calls issued, in order
    douts,      \* class of the agent's answer to each call
    derrs,      \* diagnostics emitted through emit_error
    dret,       \* _send_prompt's return value
    dstore,     \* the mapping store the direct front end uses
    dinit,      \* the store content when the invocation started
    dmade,      \* sessions the direct front end's agent created
    script,     \* the agent's answers to the direct front end, in order
    \* ---- permission requests ----
    pend,       \* per connection: the options of the permission request that
                \* awaits permission_queue.get(), <<>> when none does
    pres,       \* per connection: how the cycle's permission requests resolved
    pin,        \* the front-end invocation: flags, terminal and lines typed
    cans,       \* permission_request messages the socket front end answered
    cread,      \* terminal lines the socket front end has read
    dperm,      \* how the direct front end resolved the permission request
    \* ---- agent output ----
    started,    \* per connection: ActiveRequest.started_output
    produced,   \* per connection: the events the agent emitted for the cycle
    stray,      \* updates the agent emitted for a session not being prompted
    \* ---- the mapping store as a table (client.py SessionStore) ----
    dbok,       \* the database file can be read and written
    table,      \* the rows of acp_sessions
    clock,      \* the current UTC time
    inv         \* the front-end invocations that use the table

svcVars == <<lock, active, pc, aw, hsid, listener, pq, sent, wclosed, calls,
             outs, made, chunks, outcome, busyAt, req>>
cliVars == <<cpc, cchat, csid, cin, cgot, store>>
dirVars == <<dpc, daw, dchat, dcalls, douts, derrs, dret, dstore, dinit,
             dmade, script>>
permVars == <<pend, pres>>
feVars == <<pin, cans, cread, dperm>>
streamVars == <<started, produced, stray>>
storeVars == <<dbok, table, clock, inv>>
vars == <<svcVars, cliVars, dirVars, permVars, feVars, streamVars, storeVars>>

----------------------------------------------------------------------------
(* Agent answers *)

Answer(t, stop, msg, data, details, message) ==
    [t |-> t, stop |-> stop, msg |-> msg, data |-> data,
     details |-> details, message |-> message]

\* A normal return of new_session / set_session_mode.
AnsOk == Answer("ok", "none", "none", "none", "absent", "absent")
\* new_session answered without a session id.
AnsEmpty == Answer("empty", "none", "none", "none", "absent", "absent")
\* prompt returned with the given stop reason.
AnsStop(reason) == Answer("stop", reason, "none", "none", "absent", "absent")
\* An exception that is not a RequestError.
AnsExc == Answer("exc", "none", "none", "none", "absent", "absent")
\* A RequestError: msg is "nf" when str(exc) contains "Session not found";
\* data is "dict" when exc.data is a dict, whose "details" and "message"
\* entries are "absent" (missing or falsy), "nf" (a string containing
\* "Session not found") or "other" (any other truthy value).
AnsReqErr(msg, data, details, message) ==
    Answer("reqerr", "none", msg, data, details, message)

ErrPlain == AnsReqErr("other", "none", "absent", "absent")
ErrNotFoundMsg == AnsReqErr("nf", "none", "absent", "absent")

RequestErrors ==
    { ErrNotFoundMsg,
      AnsReqErr("other", "dict", "nf", "absent"),
      AnsReqErr("other", "dict", "absent", "nf"),
      AnsReqErr("other", "dict", "other", "nf"),
      ErrPlain }

NewOutcomes == {AnsOk, AnsEmpty, ErrPlain, AnsExc}
ModeOutcomes == {AnsOk, ErrNotFoundMsg, ErrPlain, AnsExc}
PromptOutcomes == {AnsStop("end_turn"), AnsStop("refusal"), AnsExc} \cup RequestErrors

----------------------------------------------------------------------------
(* service.py: pure parts *)

\* _is_session_not_found
SvcIsSessionNotFound(e) ==
    IF e.msg = "nf" THEN TRUE
    ELSE IF e.data = "dict"
         THEN LET details == IF e.details # "absent" THEN e.details ELSE e.message
              IN  details = "nf"
         ELSE FALSE

\* The class of an answer, as the service sees it.
SvcClass(o) ==
    CASE o.t = "stop" -> o.stop
      [] o.t = "reqerr" -> IF SvcIsSessionNotFound(o) THEN "nf" ELSE "err"
      [] OTHER -> o.t

Msg(type, sid, tag) ==
    [type |-> type, sid |-> sid, tag |-> tag, opts |-> <<>>, text |-> <<>>]
ErrorMsg(tag) == Msg("error", 0, tag)
DoneMsg(sid) == Msg("done", sid, "")

\* A text is a sequence of characters; NL is the newline.
NL == "nl"
PlainText == <<"h">>
\* str.lstrip("\n")
RECURSIVE Lstrip(_)
Lstrip(t) == IF t # <<>> /\ Head(t) = NL THEN Lstrip(Tail(t)) ELSE t

\* The chunk message with the given text, the tool message for an event.
TextMsg(text) == [Msg("chunk", 0, "") EXCEPT !.text = text]
ChunkMsg == TextMsg(PlainText)
ToolMsg(kind) == Msg("tool", 0, kind)

\* An update of the agent: its sessionUpdate type and its text.
Update(kind, text) == [kind |-> kind, text |-> text]
ToolKinds == {"tool_call_start", "tool_call_update"}

\* A session_update that sends every chunk as it comes.
SessionUpdateRaw(a, u) ==
    [msgs |-> IF u.kind = "agent_message_chunk" /\ u.text # <<>>
              THEN <<TextMsg(u.text)>> ELSE <<>>,
     started |-> a.started]
\* A session_update for which a chunk of newlines only, though dropped,
\* starts the output.
SessionUpdateCounting(a, u) ==
    CASE u.kind = "agent_message_chunk" ->
            IF u.text = <<>> THEN [msgs |-> <<>>, started |-> a.started]
            ELSE LET text == IF a.strip /\ ~a.started THEN Lstrip(u.text)
                             ELSE u.text
                 IN  [msgs |-> IF text = <<>> THEN <<>> ELSE <<TextMsg(text)>>,
                      started |-> TRUE]
      [] u.kind \in ToolKinds ->
            [msgs |-> IF a.tools THEN <<ToolMsg(u.kind)>> ELSE <<>>,
             started |-> a.started]
      [] OTHER -> [msgs |-> <<>>, started |-> a.started]
\* AcpServiceClient.session_update (lines 66-88) on the ActiveRequest a
\* (fields strip, tools, started): the messages written and started_output
\* afterwards.
SessionUpdate(a, u) ==
    CASE u.kind = "agent_message_chunk" ->
            IF u.text = <<>> THEN [msgs |-> <<>>, started |-> a.started]
            ELSE LET text == IF a.strip /\ ~a.started THEN Lstrip(u.text)
                             ELSE u.text
                 IN  IF text = <<>> THEN [msgs |-> <<>>, started |-> a.started]
                     ELSE [msgs |-> <<TextMsg(text)>>, started |-> TRUE]
      [] u.kind \in ToolKinds ->
            [msgs |-> IF a.tools THEN <<ToolMsg(u.kind)>> ELSE <<>>,
             started |-> a.started]
      [] OTHER -> [msgs |-> <<>>, started |-> a.started]
\* The permission_request message for a request offering the option ids opts.
PermissionRequestMsg(opts) == [Msg("permission_request", 0, "") EXCEPT !.opts = opts]

\* _send_message on each <<connection, message>> of items, in order; a
\* connection of 0 is emit_error finding no ActiveRequest attached.
RECURSIVE Deliver(_, _)
Deliver(s, items) ==
    IF items = <<>> THEN s
    ELSE LET it == Head(items)
         IN  Deliver(IF it[1] = 0 THEN s
                     ELSE [s EXCEPT ![it[1]] = Append(@, it[2])],
                     Tail(items))

\* AcpServiceClient.emit_error for each tag: written to the attached request.
RECURSIVE EmitErrors(_)
EmitErrors(tags) ==
    IF tags = <<>> THEN <<>>
    ELSE <<<<active, ErrorMsg(Head(tags))>>>> \o EmitErrors(Tail(tags))

\* A busy test that never sees the lock held.
LockedNever == FALSE
\* A busy test that sees the lock only once a prompt is in flight.
LockedInFlight == \E c \in Conns : aw[c].op # "none"
\* request_lock.locked()
Locked == lock # 0
\* An acquisition that leaves the lock as it was.
AcquireNothing(c) == lock
\* request_lock.acquire() by connection c: the lock's holder afterwards.
Acquire(c) == c
\* AcpServiceClient.attach: the attached request afterwards.
Attach(c) == c
\* A detach that leaves the request attached.
DetachNothing == active
\* AcpServiceClient.detach: the attached request afterwards.
Detach == 0
\* A permission outcome: "selected" with an option id, or "cancelled"; asked
\* tells whether a permission_request message was written for it.
Resolution(out, opt, asked) == [out |-> out, opt |-> opt, asked |-> asked]
\* An auto-approval that never persists.
SvcAutoOptionOnce(always) == "allow_once"
\* AcpServiceClient.request_permission, lines 101-105.
SvcAutoOption(always) == IF always THEN "allow_always" ELSE "allow_once"
\* AcpServiceClient.request_permission, lines 117-121: the outcome for the
\* value taken from the permission queue ("none": None or any falsy value).
SvcResolve(optionId) ==
    IF optionId = "none" THEN Resolution("cancelled", "none", TRUE)
    ELSE Resolution("selected", optionId, TRUE)

\* Task.cancel() on the listener: a finished task stays finished.
CancelListener(st) == IF st = "running" THEN "cancelled" ELSE st

\* _send_prompt suspended at an agent call: op is the call awaited, stage the
\* place: "0" lines 254-258, "R" the refusal branch (264-271), "X" the
\* RequestError handler (275-285).
Locals(op, stage, sid, new, mode) ==
    [op |-> op, stage |-> stage, sid |-> sid, new |-> new, mode |-> mode]
NoLocals == Locals("none", "0", 0, 0, "none")

Await(L, op, stage, call, errs) ==
    [kind |-> "await", loc |-> [L EXCEPT !.op = op, !.stage = stage],
     calls |-> <<call>>, errs |-> errs, ret |-> 0]
Returned(L, s) ==
    [kind |-> "return", loc |-> [L EXCEPT !.op = "none"],
     calls |-> <<>>, errs |-> <<>>, ret |-> s]
Raised(L, errs) ==
    [kind |-> "raise", loc |-> [L EXCEPT !.op = "none"],
     calls |-> <<>>, errs |-> errs, ret |-> 0]

\* A stage that always works on the replacement session.
CurSessionNew(L) == L.new
\* The session the stage works on.
CurSession(L) == IF L.stage = "0" THEN L.sid ELSE L.new

\* A service that prompts without applying the mode.
SvcPromptingNoMode(L, stage, s, errs) ==
    Await(L, "prompt", stage, <<"prompt", s>>, errs)
\* "if mode_id: set_session_mode(...)" then "prompt(...)" on session s.
SvcPrompting(L, stage, s, errs) ==
    IF L.mode # "none"
    THEN Await(L, "mode", stage, <<"mode", s>>, errs)
    ELSE Await(L, "prompt", stage, <<"prompt", s>>, errs)

\* A handler that recovers nothing: every request error is re-raised.
SvcOnRequestErrorNever(L, e) == Raised(L, <<"request_failed">>)

\* _send_prompt, "except RequestError as exc" (lines 274-279).
SvcOnRequestError(L, e) ==
    IF ~SvcIsSessionNotFound(e)
    THEN Raised(L, <<"request_failed">>)
    ELSE Await(L, "new", "X", <<"new", 0>>, <<"request_failed", "not_found">>)

\* An exception raised by the awaited call: the try block covers stages "0"
\* and "R"; the handler itself (stage "X") is not covered.
SvcOnException(L, o) ==
    IF o.t = "reqerr" /\ L.stage # "X"
    THEN SvcOnRequestError(L, o)
    ELSE Raised(L, <<>>)

\* _send_prompt resumed with answer o to the call it awaits; n is the session
\* id a successful new_session returns.
SvcSendPromptStep(L, o, n) ==
    IF o.t \in {"reqerr", "exc"} THEN SvcOnException(L, o)
    ELSE CASE L.op = "new" ->
                IF o.t = "empty" THEN Raised(L, <<>>)
                ELSE IF L.stage = "0"
                     THEN SvcPrompting([L EXCEPT !.sid = n], "0", n, <<>>)
                     ELSE SvcPrompting([L EXCEPT !.new = n], L.stage, n, <<>>)
           [] L.op = "mode" ->
                Await(L, "prompt", L.stage, <<"prompt", CurSession(L)>>, <<>>)
           [] OTHER ->
                IF L.stage = "0" /\ o.stop = "refusal"
                THEN Await(L, "new", "R", <<"new", 0>>, <<"refused">>)
                ELSE Returned(L, CurSession(L))

\* _send_prompt entered (lines 253-258).
SvcSendPromptEnter(sid, mode) ==
    LET L == Locals("none", "0", sid, 0, mode)
    IN  IF sid = 0 THEN Await(L, "new", "0", <<"new", 0>>, <<>>)
        ELSE SvcPrompting(L, "0", sid, <<>>)

\* handle_client, "except Exception" (lines 403-409): messages written.
SvcOnError(c) ==
    EmitErrors(<<"service_error">>)
        \o (IF hsid[c] # 0 THEN <<<<c, DoneMsg(hsid[c])>>>> ELSE <<>>)

\* An insert that leaves an existing mapping as it is.
InsertOnly(st, chat, sid) == IF st[chat] = 0 THEN [st EXCEPT ![chat] = sid] ELSE st
\* SessionStore.upsert (insert or update on the chat id).
Upsert(st, chat, sid) == [st EXCEPT ![chat] = sid]
\* SessionStore.get: the session id of the mapping, 0 when there is none.
Get(st, chat) == st[chat]
\* A get that answers from the table although the database fails.
GetAnyway(st, chat, ok) == Get(st, chat)
\* store.get when the database may fail (lines 91-93): the exception is
\* logged and None returned.
GetOr(st, chat, ok) == IF ok THEN Get(st, chat) ELSE 0
\* store.upsert when the database may fail (lines 110-111): the exception
\* is logged and nothing is written.
UpsertOr(st, chat, sid, ok) == IF ok THEN Upsert(st, chat, sid) ELSE st

----------------------------------------------------------------------------
(* client.py: pure parts of the direct front end *)

\* _is_session_not_found
CliIsSessionNotFound(e) ==
    IF e.msg = "nf" THEN TRUE
    ELSE IF e.data = "dict"
         THEN LET details == IF e.details # "absent" THEN e.details ELSE e.message
              IN  details = "nf"
         ELSE FALSE

\* The class of an answer, as the direct front end sees it.
CliClass(o) ==
    CASE o.t = "stop" -> o.stop
      [] o.t = "reqerr" -> IF CliIsSessionNotFound(o) THEN "nf" ELSE "err"
      [] OTHER -> o.t

\* _create_session: the store once new_session has answered o with session n.
CliCreateSession(st, chat, o, n) ==
    IF o.t = "ok" THEN UpsertOr(st, chat, n, dbok) ELSE st

\* "if mode_id: set_session_mode(...)" then "prompt(...)" on session s.
CliPrompting(L, stage, s, errs) ==
    IF L.mode # "none"
    THEN Await(L, "mode", stage, <<"mode", s>>, errs)
    ELSE Await(L, "prompt", stage, <<"prompt", s>>, errs)

\* An always-recovering handler: every request error is taken for
\* "session not found".
CliOnRequestErrorAlways(L, e) ==
    Await(L, "new", "X", <<"new", 0>>, <<"request_failed", "not_found">>)

\* _send_prompt, "except RequestError as exc" (lines 422-431).
CliOnRequestError(L, e) ==
    IF ~CliIsSessionNotFound(e)
    THEN Raised(L, <<"request_failed">>)
    ELSE Await(L, "new", "X", <<"new", 0>>, <<"request_failed", "not_found">>)

\* An exception raised by the awaited call: the try block of _send_prompt
\* covers stages "0" and "R"; run()'s own _create_session (stage "I") and
\* the handler (stage "X") are not covered.
CliOnException(L, o) ==
    IF o.t = "reqerr" /\ L.stage \in {"0", "R"}
    THEN CliOnRequestError(L, o)
    ELSE Raised(L, <<>>)

\* run() and _send_prompt resumed with answer o to the call awaited; n is
\* the session id a successful new_session returns.
CliSendPromptStep(L, o, n) ==
    IF o.t \in {"reqerr", "exc"} THEN CliOnException(L, o)
    ELSE CASE L.op = "new" ->
                IF o.t = "empty" THEN Raised(L, <<>>)
                ELSE IF L.stage = "I"
                     THEN CliPrompting([L EXCEPT !.sid = n], "0", n, <<>>)
                     ELSE CliPrompting([L EXCEPT !.new = n], L.stage, n, <<>>)
           [] L.op = "mode" ->
                Await(L, "prompt", L.stage, <<"prompt", CurSession(L)>>, <<>>)
           [] OTHER ->
                IF L.stage = "0" /\ o.stop = "refusal"
                THEN Await(L, "new", "R", <<"new", 0>>, <<"refused">>)
                ELSE Returned(L, CurSession(L))

\* AcpConsoleClient.session_update (lines 136-153) called for each update
\* of q in turn, with the flag strip and _started_output = begun: the
\* text written to the output stream.
RECURSIVE CliSessionUpdates(_, _, _)
CliSessionUpdates(strip, begun, q) ==
    IF q = <<>> THEN <<>>
    ELSE LET u == Head(q)
             text == IF strip /\ ~begun THEN Lstrip(u.text) ELSE u.text
         IN  IF u.kind = "agent_message_chunk" /\ u.text # <<>> /\ text # <<>>
             THEN text \o CliSessionUpdates(strip, TRUE, Tail(q))
             ELSE CliSessionUpdates(strip, begun, Tail(q))

\* run(), lines 593-607: the mapping is read; without one a session is
\* created first, else _send_prompt is entered with the mapped session.
CliRunEnter(sid, mode) ==
    LET L == Locals("none", "0", sid, 0, mode)
    IN  IF sid = 0 THEN Await(L, "new", "I", <<"new", 0>>, <<>>)
        ELSE CliPrompting(L, "0", sid, <<>>)

----------------------------------------------------------------------------
(* client.py: permission resolution of the two front ends *)

\* Option ids are non-empty strings; a typed line is what _read_choice
\* returns: the line stripped, "" for an empty line and at end of input.
Range(q) == {q[i] : i \in 1..Len(q)}

\* A loop that gives the user one more turn.
OneMoreAttempt == 3 + 1
\* "for _ in range(3)" of the two selection functions.
Attempts == 3

\* Auto-approval as both front ends configure it (lines 459 and 561).
AutoApprove(p) == IF p.auto THEN TRUE ELSE p.always

\* The result of a selection: the option id ("none": None), the number of
\* lines read and the number of "Invalid option" diagnostics written.
Selection(opt, read, diag) == [opt |-> opt, read |-> read, diag |-> diag]
AfterFailure(r, diag) == Selection(r.opt, r.read + 1, r.diag + diag)

\* str(idx) of enumerate(options, start=1), without the options whose id
\* is in skip.
IndexMap(opts, skip) ==
    [k \in {ToString(i) : i \in {j \in 1..Len(opts) : opts[j] \notin skip}} |->
        opts[CHOOSE i \in 1..Len(opts) : ToString(i) = k]]

\* The loop shared by _select_permission_option (lines 272-283) and
\* _select_permission_option_id (lines 321-331), with n turns left.
RECURSIVE SelectLoop(_, _, _, _)
SelectLoop(optionMap, indexMap, lines, n) ==
    IF n = 0 THEN Selection("none", 0, 0)
    ELSE LET choice == IF lines = <<>> THEN "" ELSE Head(lines)
             rest == IF lines = <<>> THEN <<>> ELSE Tail(lines)
         IN  IF choice = ""
             THEN AfterFailure(SelectLoop(optionMap, indexMap, rest, n - 1), 0)
             ELSE IF choice \in optionMap THEN Selection(choice, 1, 0)
             ELSE IF choice \in DOMAIN indexMap
             THEN Selection(indexMap[choice], 1, 0)
             ELSE AfterFailure(SelectLoop(optionMap, indexMap, rest, n - 1), 1)

\* _select_permission_option (lines 264-283).
SelectPermissionOption(opts, lines) ==
    SelectLoop(Range(opts), IndexMap(opts, {}), lines, Attempts)

\* _select_permission_option_id (lines 308-331): options without an id are
\* left out of both maps.
SelectPermissionOptionId(opts, lines) ==
    SelectLoop({o \in Range(opts) : o # ""},
               IndexMap(opts, {""}), lines, Attempts)

\* The outcome of a permission request in a front end: out and opt as in
\* Resolution, read the number of terminal lines read for it.
Outcome(out, opt, read, diag) ==
    [out |-> out, opt |-> opt, read |-> read, diag |-> diag]

\* Lines 182-186: without a terminal "reject_once" is selected.
DirNoTerminal(opts) == Outcome("selected", "reject_once", 0, 0)

\* AcpConsoleClient.request_permission (lines 163-199) for the invocation p,
\* whose terminal still holds p.lines.
DirRequestPermission(p, opts) ==
    IF AutoApprove(p)
    THEN Outcome("selected", IF p.always THEN "allow_always" ELSE "allow_once", 0, 0)
    ELSE IF ~p.tty THEN DirNoTerminal(opts)
    ELSE LET r == SelectPermissionOption(opts, p.lines)
         IN  IF r.opt = "none" THEN Outcome("cancelled", "none", r.read, r.diag)
             ELSE Outcome("selected", r.opt, r.read, r.diag)

\* run_via_socket on a permission_request message (lines 493-528): the
\* option id of the permission_response it writes, and the lines it read.
CliAnswerPermission(p, opts, lines) ==
    IF AutoApprove(p)
    THEN Selection(IF p.always THEN "allow_always" ELSE "allow_once", 0, 0)
    ELSE IF ~p.tty
    THEN Selection(IF "reject_once" \in Range(opts) THEN "reject_once" ELSE "none",
                   0, 0)
    ELSE SelectPermissionOptionId(opts, lines)

----------------------------------------------------------------------------
(* service.py: handle_client *)

\* Connections are numbered in the order they are made and accepted:
\* connection c moves only once connection c - 1 has left state st.
Earlier(c, f, st) == IF c = 1 THEN TRUE ELSE f[c - 1] # st

\* reader.readline() can return: a line is buffered or the peer has closed.
InputReady(c) == ~(cin[c] = <<>> /\ cpc[c] # "closed")

\* The k-th session (k = 0, 1, ...) the agent creates during the cycle of
\* connection c: an id no other cycle gets and no store holds initially.
FreshSid(c, k) == 1 + c + NumConns * k

\* handle_client starts (lines 341-348).  The busy test and, when the lock
\* is free, its acquisition happen without suspension; when the lock is held
\* the error is written, the writer closed and the handler returns.
HandleClientStart(c) ==
    /\ pc[c] = "none"
    /\ Earlier(c, pc, "none")
    /\ busyAt' = [busyAt EXCEPT ![c] = (lock # 0)]
    /\ IF Locked
       THEN /\ sent' = Deliver(sent, <<<<c, ErrorMsg("busy")>>>>)
            /\ wclosed' = [wclosed EXCEPT ![c] = TRUE]
            /\ pc' = [pc EXCEPT ![c] = "end"]
            /\ UNCHANGED lock
       ELSE IF lock # 0
            THEN /\ pc' = [pc EXCEPT ![c] = "await_lock"]
                 /\ UNCHANGED <<lock, sent, wclosed>>
            ELSE /\ lock' = Acquire(c)
                 /\ pc' = [pc EXCEPT ![c] = "read_first"]
                 /\ UNCHANGED <<sent, wclosed>>
    /\ UNCHANGED <<active, aw, hsid, listener, pq, calls, outs,
                   made, chunks, outcome, req, dirVars, permVars, streamVars, feVars, storeVars>>

\* The handler of a connection a front end has opened starts.
SvcAccept(c) ==
    /\ cpc[c] # "idle"
    /\ HandleClientStart(c)
    /\ cin' = [cin EXCEPT ![c] = IF Locked THEN <<>> ELSE @]
    /\ UNCHANGED <<cpc, cchat, csid, cgot, store>>

\* "async with request_lock" is left by connection c: the lock is released
\* and handed to the first handler waiting for it.
Release(c) ==
    LET waiting == {d \in Conns : pc[d] = "await_lock"}
    IN  IF waiting = {} THEN [l |-> 0, p |-> [pc EXCEPT ![c] = "end"]]
        ELSE LET d == CHOOSE x \in waiting : \A y \in waiting : x <= y
             IN  [l |-> d, p |-> [pc EXCEPT ![c] = "end", ![d] = "read_first"]]

\* What is left of the messages written to connection c once its handler
\* has returned: nothing when the peer has closed, else the done messages,
\* all that a peer which only prints chunk and error messages acts on.
Unread(c) ==
    IF cpc[c] = "closed" THEN <<>>
    ELSE SelectSeq(sent[c], LAMBDA m : m.type = "done")

\* A line of the client as _read_message returns it.  type "eof" is the end
\* of the stream, "garbage" a line json.loads rejects, "empty" the object
\* without fields; sidForm tells what
\* "session_id" holds: "null", "str" (a non-blank string, sid), "blank" (an
\* empty or whitespace string) or "bad" (neither a string nor null).
ClientMsg(type, prompt, sidForm, sid, mode, opt, auto, always) ==
    [type |-> type, prompt |-> prompt, sidForm |-> sidForm, sid |-> sid,
     mode |-> mode, opt |-> opt, auto |-> auto, always |-> always,
     strip |-> FALSE, tools |-> FALSE]
EofMsg == ClientMsg("eof", "", "null", 0, "none", "none", FALSE, FALSE)
PromptMsg(sid, mode) ==
    ClientMsg("prompt", "p", IF sid = 0 THEN "null" ELSE "str", sid, mode,
              "none", FALSE, FALSE)
\* A permission_response carrying option id opt ("none": null).
ResponseMsg(opt) ==
    ClientMsg("permission_response", "", "null", 0, "none", opt, FALSE, FALSE)

\* handle_client returns having held the lock: the lock is released; the
\* handler's locals, the listener task, the ActiveRequest and its queue
\* cease to exist.
Return(c) ==
    /\ lock' = Release(c).l
    /\ pc' = Release(c).p
    /\ listener' = [listener EXCEPT ![c] = "none"]
    /\ pend' = [pend EXCEPT ![c] = <<>>]
    /\ pres' = [pres EXCEPT ![c] = <<>>]
    /\ started' = [started EXCEPT ![c] = FALSE]
    /\ produced' = [produced EXCEPT ![c] = <<>>]
    /\ UNCHANGED stray
    /\ aw' = [aw EXCEPT ![c] = NoLocals]
    /\ hsid' = [hsid EXCEPT ![c] = 0]
    /\ pq' = [pq EXCEPT ![c] = <<>>]
    /\ calls' = [calls EXCEPT ![c] = <<>>]
    /\ outs' = [outs EXCEPT ![c] = <<>>]
    /\ made' = [made EXCEPT ![c] = 0]
    /\ chunks' = [chunks EXCEPT ![c] = 0]
    /\ outcome' = [outcome EXCEPT ![c] = "none"]

\* Why the first message is refused (lines 350-375), "" when it is accepted;
\* "eof" is the test "if not message" (line 350): the end of the stream, a
\* line that is no JSON ("garbage") or the empty object ("empty").
Refusal(m) ==
    CASE m.type \in {"eof", "garbage", "empty"} -> "eof"
      [] m.type # "prompt" -> "expected_prompt"
      [] m.prompt = "" -> "prompt_required"
      [] m.sidForm = "bad" -> "bad_session_id"
      [] OTHER -> ""

\* The session id handle_client keeps (lines 368-377).
RequestSid(m) == IF m.sidForm = "str" THEN m.sid ELSE 0

\* The first line is read and refused (lines 349-375): an error is written
\* unless the line was empty or unparsable, and the handler returns.
SvcRefuseFirst(c) ==
    /\ pc[c] = "read_first"
    /\ InputReady(c)
    /\ LET m == IF cin[c] # <<>> THEN Head(cin[c]) ELSE EofMsg
       IN  /\ Refusal(m) # ""
           /\ cin' = [cin EXCEPT ![c] = <<>>]
           /\ req' = [req EXCEPT ![c] = m]
           /\ sent' = IF Refusal(m) = "eof" THEN sent
                      ELSE Deliver(sent, <<<<c, ErrorMsg(Refusal(m))>>>>)
    /\ wclosed' = [wclosed EXCEPT ![c] = TRUE]
    /\ Return(c)
    /\ UNCHANGED <<active, busyAt, cpc, cchat, csid, cgot, store, dirVars, feVars, storeVars>>

\* The first line is read and accepted (lines 349-401): the ActiveRequest is
\* attached, the listener started and _send_prompt runs to its first agent
\* call.
SvcReadFirst(c) ==
    /\ pc[c] = "read_first"
    /\ InputReady(c)
    /\ cin[c] # <<>>
    /\ LET m == Head(cin[c])
           r == SvcSendPromptEnter(RequestSid(m), m.mode)
       IN  /\ Refusal(m) = ""
           /\ cin' = [cin EXCEPT ![c] = Tail(@)]
           /\ req' = [req EXCEPT ![c] = m]
           /\ hsid' = [hsid EXCEPT ![c] = RequestSid(m)]
           /\ active' = Attach(c)
           /\ listener' = [listener EXCEPT ![c] = "running"]
           /\ aw' = [aw EXCEPT ![c] = r.loc]
           /\ calls' = [calls EXCEPT ![c] = @ \o r.calls]
           /\ pc' = [pc EXCEPT ![c] = "agent"]
    /\ UNCHANGED <<lock, pq, sent, wclosed, outs, made, chunks, outcome, busyAt,
                   cpc, cchat, csid, cgot, store, dirVars, permVars, streamVars, feVars, storeVars>>

\* The "finally" step up to the await of wait_closed() (lines 410-415);
\* what the peer wrote and nobody read is lost with the closed connection.
Finally(c) ==
    /\ listener' = [listener EXCEPT ![c] = CancelListener(@)]
    /\ active' = Detach
    /\ wclosed' = [wclosed EXCEPT ![c] = TRUE]
    /\ cin' = [cin EXCEPT ![c] = <<>>]
    /\ pc' = [pc EXCEPT ![c] = "wait_closed"]

\* The awaited agent call answers o: _send_prompt runs to its next agent
\* call, or returns or raises into handle_client (lines 394-409), which
\* writes done and/or error and awaits the drain of its last write.
SvcResume(c, o) ==
    LET r == SvcSendPromptStep(aw[c], o, FreshSid(c, made[c]))
    IN  /\ pc[c] = "agent"
        /\ made' = [made EXCEPT ![c] = IF aw[c].op = "new" /\ o.t = "ok"
                                       THEN @ + 1 ELSE @]
        /\ outs' = [outs EXCEPT ![c] = Append(@, SvcClass(o))]
        /\ calls' = [calls EXCEPT ![c] = @ \o r.calls]
        /\ aw' = [aw EXCEPT ![c] = r.loc]
        /\ CASE r.kind = "await" ->
                  /\ sent' = Deliver(sent, EmitErrors(r.errs))
                  /\ UNCHANGED <<pc, hsid, outcome>>
             [] r.kind = "return" ->
                  /\ hsid' = [hsid EXCEPT ![c] = r.ret]
                  /\ sent' = Deliver(sent, <<<<c, DoneMsg(r.ret)>>>>)
                  /\ outcome' = [outcome EXCEPT ![c] = "ok"]
                  /\ pc' = [pc EXCEPT ![c] = "finishing"]
             [] OTHER ->
                  /\ sent' = Deliver(sent, EmitErrors(r.errs) \o SvcOnError(c))
                  /\ outcome' = [outcome EXCEPT ![c] = "error"]
                  /\ pc' = [pc EXCEPT ![c] = "finishing"]
                  /\ UNCHANGED hsid
        /\ UNCHANGED <<lock, active, listener, wclosed, pq, chunks, busyAt, req,
                       cliVars, dirVars, permVars, streamVars, feVars, storeVars>>

SvcNewSessionReturn(c, o) == aw[c].op = "new" /\ SvcResume(c, o)
SvcSetModeReturn(c, o) == aw[c].op = "mode" /\ SvcResume(c, o)
\* The agent answers a prompt once its permission requests are resolved.
SvcPromptReturn(c, o) == aw[c].op = "prompt" /\ pend[c] = <<>> /\ SvcResume(c, o)

\* The last write has drained: the "finally" step (lines 410-415).
SvcFinally(c) ==
    /\ pc[c] = "finishing"
    /\ Finally(c)
    /\ UNCHANGED <<lock, aw, hsid, pq, sent, calls, outs, made, chunks,
                   outcome, busyAt, req, cpc, cchat, csid, cgot, store, dirVars, permVars, streamVars, feVars, storeVars>>

\* The handler task is cancelled while _send_prompt awaits the agent:
\* CancelledError is no Exception, so only the "finally" step runs.
SvcCancel(c) ==
    /\ pc[c] = "agent"
    /\ Finally(c)
    /\ aw' = [aw EXCEPT ![c] = [@ EXCEPT !.op = "none"]]
    /\ outcome' = [outcome EXCEPT ![c] = "cancelled"]
    /\ UNCHANGED <<lock, hsid, pq, sent, calls, outs, made, chunks,
                   busyAt, req, cpc, cchat, csid, cgot, store, dirVars, permVars, streamVars, feVars, storeVars>>

\* wait_closed() returns and the handler returns.
SvcRelease(c) ==
    /\ pc[c] = "wait_closed"
    /\ Return(c)
    /\ req' = [req EXCEPT ![c] = EofMsg]
    /\ sent' = [sent EXCEPT ![c] = Unread(c)]
    /\ UNCHANGED <<active, wclosed, busyAt, cliVars, dirVars, feVars, storeVars>>

\* An ActiveRequest whose show_tools is always set.
ActiveOfShowing(c) ==
    [strip |-> req[c].strip, tools |-> TRUE, started |-> started[c]]
\* The ActiveRequest of connection c as session_update reads it.
ActiveOf(c) ==
    [strip |-> req[c].strip, tools |-> req[c].tools, started |-> started[c]]

\* AcpServiceClient.session_update (lines 62-88) with update u, delivered by
\* the agent connection while the prompt of connection c is in flight or,
\* late, while the handler's last write drains; the agent emits at most
\* limit updates in a cycle.
SvcEvent(c, u, limit) ==
    /\ <<pc[c], aw[c].op>> \in {<<"agent", "prompt">>, <<"finishing", "none">>}
    /\ chunks[c] < limit
    /\ chunks' = [chunks EXCEPT ![c] = @ + 1]
    /\ produced' = [produced EXCEPT ![c] = Append(@, u)]
    /\ IF active = 0
       THEN UNCHANGED <<sent, started>>
       ELSE LET r == SessionUpdate(ActiveOf(active), u)
            IN  /\ sent' = Deliver(sent, [i \in 1..Len(r.msgs) |-> <<active, r.msgs[i]>>])
                /\ started' = [started EXCEPT ![active] = r.started]
    /\ UNCHANGED <<lock, active, pc, aw, hsid, listener, pq, wclosed, calls,
                   outs, made, outcome, busyAt, req, cliVars, dirVars,
                   permVars, feVars, storeVars, stray>>

\* AcpServiceClient.session_update with an agent_message_chunk, delivered by
\* the agent connection while the prompt of connection c is in flight or,
\* late, while the handler's last write drains.
SvcSessionUpdate(c) ==
    SvcEvent(c, Update("agent_message_chunk", PlainText), MaxChunks)

\* _listen_for_client_messages: one turn of its loop.
ListenerStep(c) ==
    /\ listener[c] = "running"
    /\ InputReady(c)
    /\ IF cin[c] = <<>>
       THEN /\ pq' = [pq EXCEPT ![c] = Append(@, "none")]
            /\ listener' = [listener EXCEPT ![c] = "done"]
            /\ UNCHANGED cin
       ELSE /\ cin' = [cin EXCEPT ![c] = Tail(@)]
            /\ pq' = IF Head(cin[c]).type = "permission_response"
                     THEN [pq EXCEPT ![c] = Append(@, Head(cin[c]).opt)]
                     ELSE pq
            /\ UNCHANGED listener
    /\ UNCHANGED <<lock, active, pc, aw, hsid, sent, wclosed, calls, outs,
                   made, chunks, outcome, busyAt, req,
                   cpc, cchat, csid, cgot, store, dirVars, permVars, streamVars, feVars, storeVars>>

\* AcpServiceClient.request_permission up to its first suspension (lines
\* 97-116), called by the agent connection during the prompt of connection
\* c for a tool call offering the option ids opts.
SvcRequestPermission(c, opts) ==
    /\ pc[c] = "agent"
    /\ aw[c].op = "prompt"
    /\ pend[c] = <<>>
    /\ Len(pres[c]) < MaxPerms
    /\ IF active = 0
       THEN /\ pres' = [pres EXCEPT ![c] =
                           Append(@, Resolution("cancelled", "none", FALSE))]
            /\ UNCHANGED <<pend, sent>>
       ELSE IF req[active].auto
            THEN /\ pres' = [pres EXCEPT ![c] =
                      Append(@, Resolution("selected",
                                           SvcAutoOption(req[active].always),
                                           FALSE))]
                 /\ UNCHANGED <<pend, sent>>
            ELSE /\ sent' = Deliver(sent, <<<<active, PermissionRequestMsg(opts)>>>>)
                 /\ pend' = [pend EXCEPT ![c] = opts]
                 /\ UNCHANGED pres
    /\ UNCHANGED <<lock, active, pc, aw, hsid, listener, pq, wclosed, calls,
                   outs, made, chunks, outcome, busyAt, req,
                   cliVars, dirVars, feVars, streamVars, storeVars>>

\* permission_queue.get() returns (lines 117-121): the pending request is
\* resolved by the value at the head of the queue.
SvcPermissionGet(c) ==
    /\ pend[c] # <<>>
    /\ pq[c] # <<>>
    /\ pq' = [pq EXCEPT ![c] = Tail(@)]
    /\ pres' = [pres EXCEPT ![c] = Append(@, SvcResolve(Head(pq[c])))]
    /\ pend' = [pend EXCEPT ![c] = <<>>]
    /\ UNCHANGED <<lock, active, pc, aw, hsid, listener, sent, wclosed, calls,
                   outs, made, chunks, outcome, busyAt, req,
                   cliVars, dirVars, feVars, streamVars, storeVars>>

----------------------------------------------------------------------------
(* The peers of the proxy service: any process that connects to its socket *)

\* A peer connects and the handler of the connection starts.
PeerConnect(c) ==
    /\ cpc[c] = "idle"
    /\ Earlier(c, cpc, "idle")
    /\ cpc' = [cpc EXCEPT ![c] = "connected"]
    /\ HandleClientStart(c)
    /\ UNCHANGED <<cchat, csid, cin, cgot, store>>

\* The peer writes a prompt request naming session sid (0: null); what is
\* written to a connection the service has closed is lost.
PeerSendPrompt(c, sid, mode) ==
    /\ cpc[c] = "connected"
    /\ cin' = [cin EXCEPT ![c] = IF wclosed[c] THEN @
                                 ELSE Append(@, PromptMsg(sid, mode))]
    /\ cpc' = [cpc EXCEPT ![c] = "reading"]
    /\ UNCHANGED <<cchat, csid, cgot, store, svcVars, dirVars, permVars, streamVars, feVars, storeVars>>

\* The peer writes the line m as its first message: a prompt request with
\* approval flags, or a line that is no valid prompt request.
PeerSendFirst(c, m) ==
    /\ cpc[c] = "connected"
    /\ cin' = [cin EXCEPT ![c] = IF wclosed[c] THEN @ ELSE Append(@, m)]
    /\ cpc' = [cpc EXCEPT ![c] = "reading"]
    /\ UNCHANGED <<cchat, csid, cgot, store, svcVars, dirVars, permVars, streamVars, feVars, storeVars>>

\* The peer writes a permission_response, asked for or not.
PeerSendResponse(c, opt) ==
    /\ cpc[c] = "reading"
    /\ ~wclosed[c]
    /\ Len(cin[c]) + Len(pq[c]) < MaxUnread
    /\ cin' = [cin EXCEPT ![c] = Append(@, ResponseMsg(opt))]
    /\ UNCHANGED <<cpc, cchat, csid, cgot, store, svcVars, dirVars, permVars, streamVars, feVars, storeVars>>

\* The peer closes its end: it has read what it wanted, or it died.  When
\* the handler has returned already, nothing is left of the connection.
PeerClose(c) ==
    /\ cpc[c] \in {"connected", "reading"}
    /\ cpc' = [cpc EXCEPT ![c] = "closed"]
    /\ sent' = [sent EXCEPT ![c] = IF pc[c] = "end" THEN <<>> ELSE @]
    /\ busyAt' = [busyAt EXCEPT ![c] = IF pc[c] = "end" THEN FALSE ELSE @]
    /\ req' = [req EXCEPT ![c] = IF pc[c] = "end" THEN EofMsg ELSE @]
    /\ UNCHANGED <<lock, active, pc, aw, hsid, listener, pq, wclosed, calls,
                   outs, made, chunks, outcome,
                   cchat, csid, cin, cgot, store, dirVars, permVars, streamVars, feVars, storeVars>>

----------------------------------------------------------------------------
(* client.py: the socket front end, run_via_socket *)

\* Lines 443-451: the mapping is read and the socket connected.
CliConnect(c, chat) ==
    /\ cpc[c] = "idle"
    /\ Earlier(c, cpc, "idle")
    /\ cchat' = [cchat EXCEPT ![c] = chat]
    /\ csid' = [csid EXCEPT ![c] = GetOr(store, chat, dbok)]
    /\ cpc' = [cpc EXCEPT ![c] = "connected"]
    /\ UNCHANGED <<cin, cgot, store, svcVars, dirVars, permVars, streamVars, feVars, storeVars>>

\* The request of lines 454-462.
CliRequest(sid, mode, p) ==
    [PromptMsg(sid, mode) EXCEPT !.auto = AutoApprove(p), !.always = p.always]

\* Lines 454-463: the prompt request is written.
CliSendPrompt(c, mode) ==
    /\ cpc[c] = "connected"
    /\ cin' = [cin EXCEPT ![c] = IF wclosed[c] THEN @
                                 ELSE Append(@, CliRequest(csid[c], mode, pin))]
    /\ cpc' = [cpc EXCEPT ![c] = "reading"]
    /\ UNCHANGED <<cchat, csid, cgot, store, svcVars, dirVars, permVars, streamVars, feVars, storeVars>>

\* The permission_request messages among what the service wrote.
PermissionRequests(q) == SelectSeq(q, LAMBDA m : m.type = "permission_request")

\* Lines 493-528 of the read loop: the next permission_request message is
\* read and answered; what is written to a closed connection is lost.
CliPermission(c) ==
    LET asked == PermissionRequests(sent[c])
        a == CliAnswerPermission(pin, asked[cans[c] + 1].opts,
                                 SubSeq(pin.lines, cread[c] + 1, Len(pin.lines)))
    IN  /\ cpc[c] = "reading"
        /\ cans[c] < Len(asked)
        /\ cans' = [cans EXCEPT ![c] = @ + 1]
        /\ cread' = [cread EXCEPT ![c] = @ + a.read]
        /\ cin' = [cin EXCEPT ![c] = IF wclosed[c] THEN @
                                     ELSE Append(@, ResponseMsg(a.opt))]
        /\ UNCHANGED <<cpc, cchat, csid, cgot, store, svcVars, dirVars, permVars, streamVars,
                       pin, dperm, storeVars>>

\* A read loop that goes on after a done message: the last one counts.
CliDoneLast(q) ==
    LET dones == SelectSeq(q, LAMBDA m : m.type = "done")
    IN  IF dones = <<>> THEN DoneMsg(0) ELSE dones[Len(dones)]
\* Lines 529-533: the done message that ends the read loop on the
\* messages q; without one nothing is stored, as for a done message whose
\* session_id is not a non-empty string (sid 0).
CliDone(q) ==
    LET dones == SelectSeq(q, LAMBDA m : m.type = "done")
    IN  IF dones = <<>> THEN DoneMsg(0) ELSE dones[1]

\* Lines 467-539: the read loop, run to its end.  chunk and error messages
\* are printed; the first done message ends the loop and its session id, if
\* any, is stored; the end of the stream ends the loop as well.
CliRead(c) ==
    LET dones == SelectSeq(sent[c], LAMBDA m : m.type = "done")
        sid == CliDone(sent[c]).sid
    IN  /\ cpc[c] = "reading"
        /\ ~(dones = <<>> /\ ~wclosed[c])
        /\ cans[c] = Len(PermissionRequests(sent[c]))
        /\ IF sid # 0
           THEN /\ store' = UpsertOr(store, cchat[c], sid, dbok)
                /\ cgot' = [cgot EXCEPT ![c] = sid]
           ELSE UNCHANGED <<store, cgot>>
        /\ cpc' = [cpc EXCEPT ![c] = "closed"]
        /\ UNCHANGED <<cchat, csid, cin, svcVars, dirVars, permVars, streamVars, feVars, storeVars>>

----------------------------------------------------------------------------
(* client.py: the direct front end, run *)

\* run() up to its first agent call after initialize (lines 593-607).
DStart(mode) ==
    LET r == CliRunEnter(GetOr(dstore, dchat, dbok), mode)
    IN  /\ dpc = "idle"
        /\ dpc' = "agent"
        /\ daw' = r.loc
        /\ dcalls' = r.calls
        /\ UNCHANGED <<dchat, douts, derrs, dret, dstore, dinit, dmade, script,
                       svcVars, cliVars, permVars, streamVars, feVars, storeVars>>

\* The agent asks the direct front end for permission, once.
DRequestPermission ==
    /\ dperm = <<>>
    /\ dperm' = <<DirRequestPermission(pin, pin.opts)>>
    /\ UNCHANGED <<svcVars, cliVars, dirVars, permVars, streamVars, pin, cans, cread, storeVars>>

\* The awaited agent call answers o: run() and _send_prompt go on to the
\* next agent call, or _send_prompt returns or an exception leaves run().
DResume(o) ==
    LET n == FreshSid(1, dmade)
        r == CliSendPromptStep(daw, o, n)
    IN  /\ dpc = "agent"
        /\ dmade' = IF daw.op = "new" /\ o.t = "ok" THEN dmade + 1 ELSE dmade
        /\ dstore' = IF daw.op = "new" THEN CliCreateSession(dstore, dchat, o, n)
                      ELSE dstore
        /\ douts' = Append(douts, CliClass(o))
        /\ script' = Append(script, o)
        /\ dcalls' = dcalls \o r.calls
        /\ derrs' = derrs \o r.errs
        /\ daw' = r.loc
        /\ dret' = r.ret
        /\ dpc' = CASE r.kind = "await" -> "agent"
                    [] r.kind = "return" -> "returned"
                    [] OTHER -> "raised"
        /\ UNCHANGED <<dchat, dinit, svcVars, cliVars, permVars, streamVars, feVars, storeVars>>

DNewSessionReturn(o) == daw.op = "new" /\ DResume(o)
DSetModeReturn(o) == daw.op = "mode" /\ DResume(o)
DPromptReturn(o) == daw.op = "prompt" /\ DResume(o)

----------------------------------------------------------------------------
(* The proxy service with its peers *)

SvcInit ==
    /\ lock = 0
    /\ active = 0
    /\ pc = [c \in Conns |-> "none"]
    /\ aw = [c \in Conns |-> NoLocals]
    /\ hsid = [c \in Conns |-> 0]
    /\ listener = [c \in Conns |-> "none"]
    /\ pq = [c \in Conns |-> <<>>]
    /\ sent = [c \in Conns |-> <<>>]
    /\ wclosed = [c \in Conns |-> FALSE]
    /\ calls = [c \in Conns |-> <<>>]
    /\ outs = [c \in Conns |-> <<>>]
    /\ made = [c \in Conns |-> 0]
    /\ chunks = [c \in Conns |-> 0]
    /\ outcome = [c \in Conns |-> "none"]
    /\ busyAt = [c \in Conns |-> FALSE]
    /\ req = [c \in Conns |-> EofMsg]
    /\ cpc = [c \in Conns |-> "idle"]
    /\ cchat = [c \in Conns |-> "a"]
    /\ csid = [c \in Conns |-> 0]
    /\ cin = [c \in Conns |-> <<>>]
    /\ cgot = [c \in Conns |-> 0]
    /\ pend = [c \in Conns |-> <<>>]
    /\ pres = [c \in Conns |-> <<>>]
    /\ started = [c \in Conns |-> FALSE]
    /\ produced = [c \in Conns |-> <<>>]
    /\ stray = 0
    /\ cans = [c \in Conns |-> 0]
    /\ cread = [c \in Conns |-> 0]
    /\ dperm = <<>>

DirInit ==
    /\ dpc = "idle"
    /\ daw = NoLocals
    /\ dchat = "a"
    /\ dcalls = <<>>
    /\ douts = <<>>
    /\ derrs = <<>>
    /\ dret = 0
    /\ dmade = 0
    /\ script = <<>>

\* The table is not used: no invocation, an empty table.
StoreIdle ==
    /\ dbok = TRUE
    /\ table = {}
    /\ clock = 0
    /\ inv = <<>>

\* The front ends' permission input when no tool call asks for permission.
NoPin == [opts |-> <<>>, auto |-> FALSE, always |-> FALSE, tty |-> FALSE,
          lines |-> <<>>]

\* Chat "a" has a session from an earlier invocation, chat "b" has none.
Init ==
    /\ SvcInit
    /\ DirInit
    /\ StoreIdle
    /\ pin = NoPin
    /\ store = [ch \in ChatIds |-> IF ch = "a" THEN 1 ELSE 0]
    /\ dstore = store
    /\ dinit = store

Next ==
    \E c \in Conns :
        \/ PeerConnect(c)
        \/ \E sid \in {0, 1}, mode \in Modes : PeerSendPrompt(c, sid, mode)
        \/ PeerClose(c)
        \/ SvcRefuseFirst(c)
        \/ SvcReadFirst(c)
        \/ \E o \in NewOutcomes : SvcNewSessionReturn(c, o)
        \/ \E o \in ModeOutcomes : SvcSetModeReturn(c, o)
        \/ \E o \in PromptOutcomes : SvcPromptReturn(c, o)
        \/ SvcSessionUpdate(c)
        \/ SvcCancel(c)
        \/ SvcFinally(c)
        \/ SvcRelease(c)
        \/ ListenerStep(c)

Spec == Init /\ [][Next]_vars

----------------------------------------------------------------------------
(* One invocation through each front end, against the same agent behaviour *)

\* The answers the agent may give to the k-th call of the service: the
\* answer it gave to the k-th call of the direct front end, as long as there
\* is one.
Replay(S, k) == IF k <= Len(script) THEN {script[k]} \cap S ELSE S

DirDone == dpc \in {"returned", "raised"}

\* Chat "a" has a session from an earlier invocation, or none.
PairInit ==
    /\ SvcInit
    /\ DirInit
    /\ StoreIdle
    /\ pin = NoPin
    /\ store \in {[ch \in ChatIds |-> 0],
                  [ch \in ChatIds |-> IF ch = "a" THEN 1 ELSE 0]}
    /\ dstore = store
    /\ dinit = store

PairNext ==
    \/ \E mode \in Modes : DStart(mode)
    \/ \E o \in NewOutcomes : DNewSessionReturn(o)
    \/ \E o \in ModeOutcomes : DSetModeReturn(o)
    \/ \E o \in PromptOutcomes : DPromptReturn(o)
    \/ DirDone /\ CliConnect(1, dchat)
    \/ SvcAccept(1)
    \/ CliSendPrompt(1, daw.mode)
    \/ SvcReadFirst(1)
    \/ \E o \in Replay(NewOutcomes, Len(outs[1]) + 1) : SvcNewSessionReturn(1, o)
    \/ \E o \in Replay(ModeOutcomes, Len(outs[1]) + 1) : SvcSetModeReturn(1, o)
    \/ \E o \in Replay(PromptOutcomes, Len(outs[1]) + 1) : SvcPromptReturn(1, o)
    \/ SvcSessionUpdate(1)
    \/ SvcFinally(1)
    \/ CliRead(1)
    \/ SvcRelease(1)

SpecPair == PairInit /\ [][PairNext]_vars

----------------------------------------------------------------------------
(* One connection to the proxy service: first lines of every kind, and *)
(* permission requests of the agent during the prompt *)

\* The option ids a tool call offers.
PermOptions == {<<"allow_once", "reject_once">>}
\* The option ids a client answers with ("none": null).
AnswerIds == {"reject_once", "none"}
\* The agent's answers to the prompt: a normal end or a failure.
CyclePromptOutcomes == {AnsStop("end_turn"), AnsExc}

\* First lines that are no valid prompt request.
NotJson == ClientMsg("garbage", "", "null", 0, "none", "none", FALSE, FALSE)
EmptyObject == ClientMsg("empty", "", "null", 0, "none", "none", FALSE, FALSE)
WrongType == ClientMsg("permission_response", "p", "null", 0, "none", "none", FALSE, FALSE)
NoPrompt == ClientMsg("prompt", "", "null", 0, "none", "none", FALSE, FALSE)
BadSessionId == ClientMsg("prompt", "p", "bad", 0, "none", "none", FALSE, FALSE)
Malformed == {NotJson, EmptyObject, WrongType, NoPrompt, BadSessionId}

\* Prompt requests: with or without a session id, a blank session id, and
\* the approval flags.
BlankSessionId == ClientMsg("prompt", "p", "blank", 0, "none", "none", FALSE, FALSE)
FlaggedPrompts ==
    {[PromptMsg(1, "none") EXCEPT !.auto = au, !.always = al] :
        au \in BOOLEAN, al \in BOOLEAN}
FirstLines ==
    Malformed \cup {BlankSessionId, PromptMsg(0, "none")} \cup FlaggedPrompts

CycleNext ==
    \/ PeerConnect(1)
    \/ \E m \in FirstLines : PeerSendFirst(1, m)
    \/ \E opt \in AnswerIds : PeerSendResponse(1, opt)
    \/ PeerClose(1)
    \/ SvcRefuseFirst(1)
    \/ SvcReadFirst(1)
    \/ \E o \in NewOutcomes : SvcNewSessionReturn(1, o)
    \/ \E o \in CyclePromptOutcomes : SvcPromptReturn(1, o)
    \/ \E opts \in PermOptions : SvcRequestPermission(1, opts)
    \/ SvcPermissionGet(1)
    \/ ListenerStep(1)
    \/ SvcFinally(1)
    \/ SvcCancel(1)
    \/ SvcRelease(1)

\* The event loop runs every task that is ready: the handler, the listener
\* and the agent connection's permission request.  Nothing obliges the
\* peer to write or close, the agent to answer, or anyone to cancel.
CycleFair ==
    /\ WF_vars(SvcRefuseFirst(1))
    /\ WF_vars(SvcReadFirst(1))
    /\ WF_vars(ListenerStep(1))
    /\ WF_vars(SvcPermissionGet(1))
    /\ WF_vars(SvcFinally(1))
    /\ WF_vars(SvcRelease(1))

SpecCycle == Init /\ [][CycleNext]_vars /\ CycleFair

----------------------------------------------------------------------------
(* One permission request through each front end, with the same flags, *)
(* terminal and typed lines *)

\* Number of lines typed at the terminal.
MaxLines == 4

OptionLists == {<<"allow_once", "reject_once">>, <<"allow_once">>}
\* Typed lines: empty, unrecognised, an index, an option id.
TypedLines == {"", "x", "2", "reject_once"}
LineSeqs(n) == UNION {[1..k -> TypedLines] : k \in 0..n}

\* Without a terminal, or with auto-approval, at most one line waits on
\* standard input.
PermInputs ==
    {[opts |-> o, auto |-> au, always |-> al, tty |-> t, lines |-> l] :
        o \in OptionLists, au \in BOOLEAN, al \in BOOLEAN, t \in BOOLEAN,
        l \in LineSeqs(1)}
    \cup
    {[opts |-> o, auto |-> FALSE, always |-> FALSE, tty |-> TRUE, lines |-> l] :
        o \in OptionLists, l \in LineSeqs(MaxLines)}

PermInit ==
    /\ SvcInit
    /\ DirInit
    /\ StoreIdle
    /\ pin \in PermInputs
    /\ store = [ch \in ChatIds |-> IF ch = "a" THEN 1 ELSE 0]
    /\ dstore = store
    /\ dinit = store

PermNext ==
    \/ DRequestPermission
    \/ dperm # <<>> /\ CliConnect(1, "a")
    \/ SvcAccept(1)
    \/ CliSendPrompt(1, "none")
    \/ SvcReadFirst(1)
    \/ SvcRequestPermission(1, pin.opts)
    \/ CliPermission(1)
    \/ ListenerStep(1)
    \/ SvcPermissionGet(1)
    \/ SvcPromptReturn(1, AnsStop("end_turn"))
    \/ SvcFinally(1)
    \/ CliRead(1)
    \/ SvcRelease(1)

SpecPerm == PermInit /\ [][PermNext]_vars

----------------------------------------------------------------------------
(* One cycle of the proxy service with the agent's output: chunks with and *)
(* without leading newlines, tool events, other updates *)

\* Number of updates the agent emits during the cycle.
MaxEvents == 3

Texts == {<<>>, <<NL>>, <<NL, "h">>, <<"h">>}
Updates ==
    {Update("agent_message_chunk", t) : t \in Texts}
        \cup {Update(k, <<>>) : k \in ToolKinds}
        \cup {Update("plan", <<>>)}
\* Prompt requests on session 1 with the two output flags.
StreamPrompts ==
    {[PromptMsg(1, "none") EXCEPT !.strip = st, !.tools = tl] :
        st \in BOOLEAN, tl \in BOOLEAN}

StreamNext ==
    \/ PeerConnect(1)
    \/ \E m \in StreamPrompts : PeerSendFirst(1, m)
    \/ SvcReadFirst(1)
    \/ \E u \in Updates : SvcEvent(1, u, MaxEvents)
    \/ SvcPromptReturn(1, AnsStop("end_turn"))
    \/ SvcFinally(1)
    \/ SvcRelease(1)
    \/ PeerClose(1)

SpecStream == Init /\ [][StreamNext]_vars

----------------------------------------------------------------------------
(* One cycle of the proxy service while the agent still reports on the *)
(* session of an earlier cycle *)

\* Number of updates the agent emits for the earlier session.
MaxStray == 1

\* The sessions connection c's cycle works on.
SessionsOf(c) == {hsid[c], aw[c].sid, aw[c].new} \ {0}

\* AcpServiceClient.session_update (lines 62-88) called for session s, a
\* session no cycle is working on: a late update of an earlier cycle.  The
\* method does not look at session_id; it writes to the ActiveRequest
\* attached at that moment.
SvcStrayUpdate(s, u) ==
    /\ \A c \in Conns : s \notin SessionsOf(c)
    /\ stray < MaxStray
    /\ stray' = stray + 1
    /\ IF active = 0 THEN UNCHANGED <<sent, started>>
       ELSE LET r == SessionUpdate(ActiveOf(active), u)
            IN  /\ sent' = Deliver(sent, [i \in 1..Len(r.msgs) |-> <<active, r.msgs[i]>>])
                /\ started' = [started EXCEPT ![active] = r.started]
    /\ UNCHANGED <<lock, active, pc, aw, hsid, listener, pq, wclosed, calls,
                   outs, made, chunks, outcome, busyAt, req, cliVars, dirVars,
                   permVars, feVars, storeVars, produced>>

\* Prompt requests on session 2; session 1 is the one of the earlier cycle.
LatePrompts ==
    {[PromptMsg(2, "none") EXCEPT !.tools = tl] : tl \in BOOLEAN}
LateUpdates ==
    {Update("agent_message_chunk", PlainText), Update("tool_call_start", <<>>)}

LateNext ==
    \/ PeerConnect(1)
    \/ \E m \in LatePrompts : PeerSendFirst(1, m)
    \/ SvcReadFirst(1)
    \/ \E u \in LateUpdates : SvcEvent(1, u, MaxEvents)
    \/ \E u \in LateUpdates : SvcStrayUpdate(1, u)
    \/ SvcPromptReturn(1, AnsStop("end_turn"))
    \/ SvcFinally(1)
    \/ SvcRelease(1)
    \/ PeerClose(1)

SpecLate == Init /\ [][LateNext]_vars

----------------------------------------------------------------------------
(* client.py: SessionStore as a table, used by concurrent invocations *)

\* A row of acp_sessions; NoRow is what fetchone() returns for no row.
Row(chat, sid, at) == [chat |-> chat, sid |-> sid, at |-> at]
NoRow == Row("", 0, 0)
RowsOf(t, chat) == {r \in t : r.chat = chat}

\* An upsert that leaves updated_at alone when the row exists.
TableUpsertKeepTime(t, chat, sid, now) ==
    IF RowsOf(t, chat) = {} THEN t \cup {Row(chat, sid, now)}
    ELSE {IF r.chat = chat THEN Row(chat, sid, r.at) ELSE r : r \in t}
\* An INSERT that ignores the conflict and adds a second row.
TableInsert(t, chat, sid, now) == t \cup {Row(chat, sid, now)}
\* The statement of SessionStore.upsert (lines 99-108): INSERT ... ON
\* CONFLICT(chat_id) DO UPDATE SET session_id, updated_at.
TableUpsert(t, chat, sid, now) ==
    IF RowsOf(t, chat) = {} THEN t \cup {Row(chat, sid, now)}
    ELSE {IF r.chat = chat THEN Row(chat, sid, now) ELSE r : r \in t}
\* The statement of SessionStore.get (lines 84-89).
TableGet(t, chat) ==
    IF RowsOf(t, chat) = {} THEN NoRow ELSE CHOOSE r \in RowsOf(t, chat) : TRUE
\* SessionStore.get (lines 81-93): an exception is logged and None returned.
SessionStoreGet(t, chat, ok) == IF ok THEN TableGet(t, chat) ELSE NoRow
\* SessionStore.upsert (lines 95-111) with the timestamp taken at line 96:
\* an exception is logged and the transaction not committed.
SessionStoreUpsert(t, chat, sid, now, ok) ==
    IF ok THEN TableUpsert(t, chat, sid, now) ELSE t

\* The mapping the table holds: session id by chat id, 0 for none.
MappingOf(t) == [ch \in ChatIds |-> TableGet(t, ch).sid]

\* The last value of the clock.
MaxClock == 2
\* The invocations that run concurrently on one database file.
Invs == {1, 2}
\* An invocation: its position ("idle", "ready", "writing"), its chat id,
\* what get returned, the session id and timestamp of the upsert it is in,
\* the number of upserts it has made; seen is the row of its chat id when
\* that upsert was called.
Invocation(ipc, chat, got, sid, ts, n, seen) ==
    [pc |-> ipc, chat |-> chat, got |-> got, sid |-> sid, ts |-> ts, n |-> n,
     seen |-> seen]
\* The session ids invocation i writes: one every invocation may write (a
\* session already mapped) and one of its own.
SidsOf(i) == {1, 1 + i}

\* store.get(args.chat_id) at the start of run and run_via_socket.
InvGet(i, chat) ==
    /\ inv[i].pc = "idle"
    /\ inv' = [inv EXCEPT ![i] = [@ EXCEPT !.pc = "ready", !.chat = chat,
                   !.got = SessionStoreGet(table, chat, dbok).sid]]
    /\ UNCHANGED <<dbok, table, clock, svcVars, cliVars, dirVars, permVars,
                   feVars, streamVars>>

\* SessionStore.upsert is called (line 96): the timestamp is taken.
InvUpsertCall(i, sid) ==
    /\ inv[i].pc = "ready"
    /\ inv[i].n \in {0, 1}
    /\ inv' = [inv EXCEPT ![i] = [@ EXCEPT !.pc = "writing", !.sid = sid,
                   !.ts = clock, !.seen = TableGet(table, inv[i].chat)]]
    /\ UNCHANGED <<dbok, table, clock, svcVars, cliVars, dirVars, permVars,
                   feVars, streamVars>>

\* The transaction of the upsert runs (lines 97-109) and upsert returns.
InvUpsertRun(i) ==
    /\ inv[i].pc = "writing"
    /\ table' = SessionStoreUpsert(table, inv[i].chat, inv[i].sid, inv[i].ts, dbok)
    /\ inv' = [inv EXCEPT ![i] = [@ EXCEPT !.pc = "ready", !.n = @ + 1]]
    /\ UNCHANGED <<dbok, clock, svcVars, cliVars, dirVars, permVars, feVars,
                   streamVars>>

\* Time passes; the UTC clock does not go back.
Tick ==
    /\ clock < MaxClock
    /\ clock' = clock + 1
    /\ UNCHANGED <<dbok, table, inv, svcVars, cliVars, dirVars, permVars,
                   feVars, streamVars>>

\* The database file becomes unusable, or usable again.
DbToggle ==
    /\ dbok' = ~dbok
    /\ UNCHANGED <<table, clock, inv, svcVars, cliVars, dirVars, permVars,
                   feVars, streamVars>>

\* The table created by _ensure_schema holds at most one row per chat id.
StoreInit ==
    /\ SvcInit
    /\ DirInit
    /\ pin = NoPin
    /\ store = [ch \in ChatIds |-> 0]
    /\ dstore = store
    /\ dinit = store
    /\ dbok = TRUE
    /\ clock = 1
    /\ table \in {{}, {Row("a", 1, 1), Row("b", 1, 0)}}
    /\ inv = [i \in Invs |-> Invocation("idle", "a", 0, 0, 0, 0, NoRow)]

StoreNext ==
    \/ \E i \in Invs, chat \in ChatIds : InvGet(i, chat)
    \/ \E i \in Invs : \E sid \in SidsOf(i) : InvUpsertCall(i, sid)
    \/ \E i \in Invs : InvUpsertRun(i)
    \/ Tick
    \/ DbToggle

SpecStore == StoreInit /\ [][StoreNext]_vars

\* The invocations of SpecPair on a database that fails and recovers at any time.
FailNext ==
    \/ PairNext
    \/ DbToggle

SpecFail == PairInit /\ [][FailNext]_vars

----------------------------------------------------------------------------
(* The socket front end against whatever serves the socket *)

\* What the server may write: a chunk, an error, a done message with a
\* session id and one without.
SrvMsgs == {ChunkMsg, ErrorMsg("busy"), DoneMsg(0), DoneMsg(2), DoneMsg(3)}

\* The server writes a message to connection c.
SrvWrite(c, m) ==
    /\ cpc[c] \in {"connected", "reading"}
    /\ ~wclosed[c]
    /\ Len(sent[c]) < MaxUnread
    /\ sent' = [sent EXCEPT ![c] = Append(@, m)]
    /\ UNCHANGED <<lock, active, pc, aw, hsid, listener, pq, wclosed, calls,
                   outs, made, chunks, outcome, busyAt, req, cliVars, dirVars,
                   permVars, feVars, streamVars, storeVars>>

\* The server closes connection c: the reader of the client gets EOF
\* after what was written.
SrvClose(c) ==
    /\ cpc[c] \in {"connected", "reading"}
    /\ ~wclosed[c]
    /\ wclosed' = [wclosed EXCEPT ![c] = TRUE]
    /\ UNCHANGED <<lock, active, pc, aw, hsid, listener, pq, sent, calls,
                   outs, made, chunks, outcome, busyAt, req, cliVars, dirVars,
                   permVars, feVars, streamVars, storeVars>>

\* readline() raises in the read loop of connection c: the loop is left
\* through its finally clause.
CliReadFails(c) == cpc[c] = "reading" /\ PeerClose(c)

\* One invocation of the socket front end, on connection 1.
SockNext ==
    \/ \E chat \in ChatIds : CliConnect(1, chat)
    \/ \E mode \in Modes : CliSendPrompt(1, mode)
    \/ \E m \in SrvMsgs : SrvWrite(1, m)
    \/ SrvClose(1)
    \/ CliRead(1)
    \/ CliReadFails(1)

SpecSock == Init /\ [][SockNext]_vars

----------------------------------------------------------------------------
(* Properties of the proxy service *)

\* Positions of handle_client inside "async with request_lock".
CyclePcs == {"read_first", "agent", "finishing", "wait_closed"}
InCycle == {c \in Conns : pc[c] \in CyclePcs}
\* Connections whose handler awaits an agent call.
Calling == {c \in Conns : aw[c].op # "none"}

ErrorsOf(log) == SelectSeq(log, LAMBDA m : m.type = "error")
DonesOf(log) == SelectSeq(log, LAMBDA m : m.type = "done")

\* C1: at most one prompt cycle is active at any time: at most one
\* connection is inside the locked region and it holds the lock; the
\* attached ActiveRequest, if any, is that connection's; at most one
\* connection awaits an agent call and it is the attached one.
C1_OneActiveCycle ==
    /\ Cardinality(InCycle) <= 1
    /\ \A c \in InCycle : lock = c
    /\ active # 0 => active \in InCycle /\ pc[active] \in {"agent", "finishing"}
    /\ Cardinality(Calling) <= 1
    /\ \A c \in Calling : active = c /\ pc[c] = "agent"

\* Two connections were made while one of them awaits its prompt call.
C1_Witness ==
    \E c, d \in Conns :
        /\ c # d
        /\ pc[c] = "agent" /\ aw[c].op = "prompt" /\ active = c
        /\ pc[d] # "none"

\* What a connection rejected as busy has got and caused.
C2_Rejected(c) ==
    /\ pc[c] = "end"
    /\ wclosed[c]
    /\ sent[c] = <<ErrorMsg("busy")>>
    /\ calls[c] = <<>>
    /\ listener[c] = "none"
    /\ active # c
    /\ lock # c
    /\ req[c] = EofMsg

\* The step that rejects connection c changes nothing of the lock, of the
\* attached request and of the other connections.
C2_Frame(c) ==
    /\ lock' = lock
    /\ active' = active
    /\ \A d \in Conns \ {c} :
           /\ pc'[d] = pc[d] /\ aw'[d] = aw[d] /\ hsid'[d] = hsid[d]
           /\ listener'[d] = listener[d] /\ pq'[d] = pq[d]
           /\ sent'[d] = sent[d] /\ wclosed'[d] = wclosed[d]
           /\ calls'[d] = calls[d] /\ outs'[d] = outs[d]
           /\ cin'[d] = cin[d]

\* C2: a connection accepted while the lock is held is never queued: it
\* gets exactly one error message and is closed without waiting for the
\* lock; its prompt is never read, it causes no agent call, has no
\* ActiveRequest attached and gets no chunk or done message; the cycle
\* holding the lock is unaffected by the rejection.
C2_BusyRejected ==
    /\ [](\A c \in Conns : busyAt[c] => C2_Rejected(c))
    /\ [][\A c \in Conns : (busyAt'[c] /\ ~busyAt[c]) => C2_Frame(c)]_vars

\* A rejected connection whose peer has sent its prompt, while the cycle
\* that held the lock has completed with a done message.
C2_Witness ==
    \E c, d \in Conns :
        /\ busyAt[c] /\ cpc[c] = "reading"
        /\ pc[d] = "wait_closed" /\ outcome[d] = "ok"
        /\ DonesOf(sent[d]) # <<>>

\* C3: however an active cycle ends, once its "finally" step has run the
\* listener is not running, no ActiveRequest is attached and the connection
\* is closed; once the handler has returned the lock is not its own: the lock
\* is held only by a connection inside its cycle, so a connection that
\* arrives when no cycle is active finds the lock free.
C3_CleanupAlways ==
    /\ \A c \in Conns :
           /\ pc[c] = "wait_closed" =>
                 /\ outcome[c] \in {"ok", "error", "cancelled"}
                 /\ listener[c] \in {"cancelled", "done"}
                 /\ active = 0
                 /\ wclosed[c]
           /\ pc[c] = "end" =>
                 /\ listener[c] = "none"
                 /\ active # c
                 /\ wclosed[c]
                 /\ lock # c
    /\ lock # 0 => lock \in InCycle
    /\ InCycle = {} => lock = 0 /\ active = 0

\* A connection is served after the cycle of an earlier connection ended,
\* and its own cycle has ended by cancellation.
C3_Witness ==
    \E c, d \in Conns :
        /\ d < c
        /\ pc[d] = "end" /\ ~busyAt[d] /\ DonesOf(sent[d]) # <<>>
        /\ ~busyAt[c] /\ pc[c] = "wait_closed" /\ outcome[c] = "cancelled"

\* The session ids that exist for the cycle of connection c: supplied in the
\* prompt message or created during the cycle.
CycleSessions(c) == {hsid[c], aw[c].sid, aw[c].new} \ {0}

\* C10: when an active cycle ends with an unrecoverable error, an error
\* message is sent and then, if a session id exists for the cycle (supplied
\* or created during it), one done message carrying such an id; the error
\* precedes the done, and with no session id no done is sent.
C10_ErrorThenDone ==
    \A c \in Conns :
        (pc[c] = "wait_closed" /\ outcome[c] = "error") =>
            /\ ErrorsOf(sent[c]) # <<>>
            /\ IF CycleSessions(c) = {}
               THEN DonesOf(sent[c]) = <<>>
               ELSE /\ Len(DonesOf(sent[c])) = 1
                    /\ DonesOf(sent[c])[1].sid \in CycleSessions(c)
                    /\ \E i, j \in 1..Len(sent[c]) :
                           /\ i < j
                           /\ sent[c][i].type = "error"
                           /\ sent[c][j].type = "done"

\* C11: on every connection at most one done message is sent and done is
\* terminal: no message of any type follows it on that connection, even
\* when the agent delivers further events before the ActiveRequest is
\* detached.
C11_DoneTerminal ==
    \A c \in Conns :
        /\ Len(DonesOf(sent[c])) <= 1
        /\ \A i \in 1..Len(sent[c]) :
               sent[c][i].type = "done" => i = Len(sent[c])

----------------------------------------------------------------------------
(* Properties of Session Recovery, in both front ends *)

\* A send as its logs show it: the agent calls cs, the classes os of the
\* answers, the mode, how it stands ("running", "returned", "raised"), the
\* session id returned and the diagnostics reported.
Send(cs, os, mode, state, ret, errs) ==
    [cs |-> cs, os |-> os, mode |-> mode, state |-> state, ret |-> ret,
     errs |-> errs]

\* The send of the direct front end.
DirSend ==
    Send(dcalls, douts, daw.mode,
         CASE dpc = "returned" -> "returned" [] dpc = "raised" -> "raised"
           [] OTHER -> "running",
         dret, {derrs[i] : i \in 1..Len(derrs)})

\* The send of the proxy service for connection 1, while its handler lives.
SvcSend ==
    Send(calls[1], outs[1], aw[1].mode,
         CASE outcome[1] = "ok" -> "returned" [] outcome[1] = "error" -> "raised"
           [] OTHER -> "running",
         hsid[1], {sent[1][i].tag : i \in 1..Len(sent[1])})

PromptIdx(cs) == {k \in 1..Len(cs) : cs[k][1] = "prompt"}
NewIdx(cs) == {k \in 1..Len(cs) : cs[k][1] = "new"}
Least(S) == CHOOSE x \in S : \A y \in S : x <= y
\* The index of the first prompt call, 0 when there is none yet.
FirstPrompt(cs) == IF PromptIdx(cs) = {} THEN 0 ELSE Least(PromptIdx(cs))
\* The first prompt of the send (the one issued before any recovery: the
\* calls before it succeeded) has been answered with class cl.
FirstPromptGot(S, cl) ==
    /\ FirstPrompt(S.cs) > 0
    /\ Len(S.os) >= FirstPrompt(S.cs)
    /\ \A k \in 1..(FirstPrompt(S.cs) - 1) : S.os[k] = "ok"
    /\ S.os[FirstPrompt(S.cs)] = cl
\* Classes of answers that are exceptions.
Failures == {"err", "nf", "exc", "empty"}

\* The refusal claim on one send.
RefusalRetriedOnce(S) ==
    LET p == FirstPrompt(S.cs)
    IN  FirstPromptGot(S, "refusal") =>
            /\ Cardinality(PromptIdx(S.cs)) <= 2
            /\ Cardinality({k \in NewIdx(S.cs) : k > p}) <= 1
            /\ S.state = "returned" =>
                  /\ S.ret # S.cs[p][2]
                  /\ S.ret = S.cs[Len(S.cs)][2]

\* C4: when the first prompt is refused, exactly one new session is created
\* and the prompt retried exactly once against it, whatever the retry
\* returns or raises: at most two prompt calls and one replacement session
\* in a send, and the id returned is the new one, not the original.
C4_RefusalRetryOnce == RefusalRetriedOnce(DirSend) /\ RefusalRetriedOnce(SvcSend)

\* The second-refusal claim on one send.
SecondRefusalSurfaced(S) ==
    LET q == IF Cardinality(PromptIdx(S.cs)) >= 2
             THEN Least(PromptIdx(S.cs) \ {FirstPrompt(S.cs)}) ELSE 0
    IN  (FirstPromptGot(S, "refusal") /\ q > 0 /\ Len(S.os) >= q
             /\ S.os[q] = "refusal") =>
            /\ Len(S.cs) = q
            /\ S.state # "returned"

\* C5: when the retried prompt is refused too, it is not retried again and
\* the send does not return normally.
C5_SecondRefusalSurfaced ==
    SecondRefusalSurfaced(DirSend) /\ SecondRefusalSurfaced(SvcSend)

\* The calls of a recovery on fresh session n.
RecoveryCalls(mode, n) ==
    <<<<"new", 0>>>>
        \o (IF mode # "none" THEN <<<<"mode", n>>>> ELSE <<>>)
        \o <<<<"prompt", n>>>>

IsPrefix(a, b) == Len(a) <= Len(b) /\ a = SubSeq(b, 1, Len(a))

\* The session-not-found claim on one send.
NotFoundRecovered(S) ==
    LET p == FirstPrompt(S.cs)
        n == FreshSid(1, Cardinality({k \in NewIdx(S.cs) : k < p}))
        rest == SubSeq(S.cs, p + 1, Len(S.cs))
        after == SubSeq(S.os, p + 1, Len(S.os))
        failed == {k \in 1..Len(after) : after[k] \in Failures}
    IN  FirstPromptGot(S, "nf") =>
            /\ "not_found" \in S.errs
            /\ rest # <<>>
            /\ IsPrefix(rest, RecoveryCalls(S.mode, n))
            /\ \A k \in failed : k = Len(rest) /\ S.state = "raised"
            /\ S.state = "raised" => failed # {}
            /\ S.state = "returned" =>
                  rest = RecoveryCalls(S.mode, n) /\ S.ret = n
            /\ (failed = {} /\ Len(after) = Len(RecoveryCalls(S.mode, n))) =>
                  S.state = "returned"

\* C6: when the first prompt raises a request error recognised as "session
\* not found", a diagnostic is reported, exactly one fresh session is
\* created, the mode (if any) is reapplied to it, the prompt is retried once
\* against it and the fresh id is returned; an error raised during that
\* recovery is not recovered again and propagates.
C6_NotFoundRecovery == NotFoundRecovered(DirSend) /\ NotFoundRecovered(SvcSend)

\* Both front ends have recovered from "session not found" with a mode set.
C6_Witness ==
    /\ FirstPromptGot(DirSend, "nf") /\ DirSend.state = "returned"
    /\ FirstPromptGot(SvcSend, "nf") /\ SvcSend.state = "returned"
    /\ DirSend.mode # "none"

Last(q) == q[Len(q)]

\* The other-request-error claim, on the states of one send.
OtherErrorEnds(S) ==
    \A k \in 1..Len(S.os) :
        S.os[k] = "err" => k = Len(S.cs) /\ S.state = "raised"

\* The step in which the direct front end gets such an error, and every
\* step after its send has raised.
DirOtherErrorStep ==
    /\ (douts' # douts /\ Last(douts') = "err") =>
           dcalls' = dcalls /\ dstore' = dstore /\ dmade' = dmade
    /\ dpc = "raised" => dcalls' = dcalls /\ dstore' = dstore /\ dpc' = dpc

\* The step in which the service gets such an error.
SvcOtherErrorStep ==
    (outs'[1] # outs[1] /\ outs'[1] # <<>> /\ Last(outs'[1]) = "err") =>
        calls'[1] = calls[1] /\ made'[1] = made[1] /\ outcome'[1] = "error"

\* C7: a request error that is not "session not found" is not retried and
\* propagates: after it no session is created and no further agent call is
\* issued in that send, and the direct front end does not write the store.
C7_OtherErrorPropagates ==
    /\ [](OtherErrorEnds(DirSend) /\ OtherErrorEnds(SvcSend))
    /\ [][DirOtherErrorStep /\ SvcOtherErrorStep]_vars

\* Both front ends got such an error from the first prompt on a mapped
\* session, and the direct front end's store is as it was.
C7_Witness ==
    /\ FirstPromptGot(DirSend, "err") /\ DirSend.state = "raised"
    /\ FirstPromptGot(SvcSend, "err") /\ SvcSend.state = "raised"
    /\ dinit[dchat] # 0 /\ dstore = dinit

\* The socket front end has run to its end while the handler of its
\* connection still lives.
SocketDone == pc[1] = "wait_closed" /\ cpc[1] = "closed"

C9_SameInBothFrontEnds ==
    /\ IsPrefix(calls[1], dcalls) \/ IsPrefix(dcalls, calls[1])
    /\ (DirDone /\ SocketDone /\ outs[1] = douts) =>
           /\ calls[1] = dcalls
           /\ Get(store, dchat) = Get(dstore, dchat)

----------------------------------------------------------------------------
(* Properties of permission requests and of the first message *)

\* C12: with auto-approval off, every permission request the agent raises
\* during a cycle is eventually resolved: once the client connection has
\* closed, a request that waits for its answer (the first, the second or a
\* later one of the cycle) gets its outcome, unless the handler task itself
\* is cancelled.
C12_PermissionResolved ==
    \A k \in 0..(MaxPerms - 1) :
        (pend[1] # <<>> /\ Len(pres[1]) = k /\ cpc[1] = "closed")
            ~> (Len(pres[1]) > k \/ outcome[1] = "cancelled")

\* The option id auto-approval selects.
AutoSelected(always) == IF always THEN "allow_always" ELSE "allow_once"

\* C13: with auto-approval configured, every permission request resolves to
\* "selected" with "allow_always" if persistent approval is configured and
\* "allow_once" otherwise, with no I/O: the service writes no
\* permission_request and never waits on the permission queue, the socket
\* front end answers nothing, and neither front end reads a terminal line.
C13_AutoApproval ==
    /\ (AutoApprove(pin) /\ dperm # <<>>) =>
           dperm[1] = Outcome("selected", AutoSelected(pin.always), 0, 0)
    /\ \A c \in Conns :
           req[c].auto =>
               /\ PermissionRequests(sent[c]) = <<>>
               /\ pend[c] = <<>>
               /\ \A i \in 1..Len(pres[c]) :
                      pres[c][i] =
                          Resolution("selected", AutoSelected(req[c].always), FALSE)
               /\ cans[c] = 0
               /\ cread[c] = 0

\* Both front ends have auto-approved persistently, with a line waiting on
\* the terminal.
C13_Witness ==
    /\ AutoApprove(pin) /\ pin.always /\ pin.lines # <<>>
    /\ dperm # <<>>
    /\ req[1].auto
    /\ Len(pres[1]) >= 1

\* What a front end without terminal has to resolve a request to.
NoTerminalOutcome(opts) ==
    IF "reject_once" \in Range(opts) THEN <<"selected", "reject_once">>
    ELSE <<"cancelled", "none">>

\* The socket front end's part of C14: what the service resolves the
\* request to from the relayed answer.
SocketNoTerminal ==
    (~AutoApprove(pin) /\ ~pin.tty) =>
        /\ \A i \in 1..Len(pres[1]) :
               <<pres[1][i].out, pres[1][i].opt>> = NoTerminalOutcome(pin.opts)
        /\ cread[1] = 0

\* The direct front end's part of C14.
DirectNoTerminal ==
    (~AutoApprove(pin) /\ ~pin.tty /\ dperm # <<>>) =>
        /\ <<dperm[1].out, dperm[1].opt>> = NoTerminalOutcome(pin.opts)
        /\ dperm[1].read = 0

\* C14: with auto-approval off and no terminal, both front ends resolve a
\* permission request without reading input, to "selected" with
\* "reject_once" exactly when "reject_once" is among the offered options,
\* and to "cancelled" with no selection when it is not.
C14_NoTerminalRejectOnce == DirectNoTerminal /\ SocketNoTerminal

\* The i-th line the terminal yields: "" once the typed lines are used up.
TypedLine(i) == IF i <= Len(pin.lines) THEN pin.lines[i] ELSE ""
\* The offered option a line names by id or by 1-based index, "none" if it
\* names none.
Named(l) ==
    IF l \in Range(pin.opts) THEN l
    ELSE IF \E i \in 1..Len(pin.opts) : ToString(i) = l
         THEN pin.opts[CHOOSE i \in 1..Len(pin.opts) : ToString(i) = l]
         ELSE "none"
\* What interactive resolution has to yield on the typed lines.
Interactive ==
    LET hits == {i \in 1..3 : Named(TypedLine(i)) # "none"}
        f == IF hits = {} THEN 3 ELSE Least(hits)
        noise == {i \in 1..f : TypedLine(i) # "" /\ Named(TypedLine(i)) = "none"}
    IN  [out |-> IF hits = {} THEN "cancelled" ELSE "selected",
         opt |-> Named(TypedLine(f)),
         read |-> f,
         diag |-> Cardinality(noise)]

\* C15: interactive permission resolution reads at most 3 lines; an empty
\* or unrecognised line is a failed attempt (an unrecognised one also
\* writes a diagnostic); the first line that is an offered option id or a
\* 1-based index resolves to that option's id; after 3 failed attempts the
\* request is denied; a selection is always an offered option.  It holds
\* for _select_permission_option in the direct front end and for
\* _select_permission_option_id in the socket front end, whose answer the
\* service relays.
C15_InteractiveSelection ==
    (~AutoApprove(pin) /\ pin.tty) =>
        /\ dperm # <<>> =>
               /\ dperm[1] = Interactive
               /\ dperm[1].read <= 3
               /\ dperm[1].out = "selected" => dperm[1].opt \in Range(pin.opts)
        /\ cread[1] <= 3 * cans[1]
        /\ cans[1] = 1 => cread[1] = Interactive.read
        /\ Len(pres[1]) >= 1 =>
               /\ pres[1][1] = Resolution(Interactive.out, Interactive.opt, TRUE)
               /\ pres[1][1].out = "selected" => pres[1][1].opt \in Range(pin.opts)

\* Four lines were typed; both front ends selected on the third, after an
\* empty and an unrecognised line.
C15_Witness ==
    /\ ~AutoApprove(pin) /\ pin.tty
    /\ pin.lines = <<"", "x", "2", "x">>
    /\ dperm # <<>> /\ dperm[1].out = "selected" /\ dperm[1].read = 3
    /\ dperm[1].diag = 1
    /\ Len(pres[1]) >= 1 /\ pres[1][1].opt = "reject_once"

\* C16: within a cycle the permission queue, the hand-off channel between
\* the listener and the task that drives the prompt, holds at most one
\* pending answer, however many permission_response messages the client
\* sends and whenever it sends them.
C16_QueueAtMostOne == \A c \in Conns : Len(pq[c]) <= 1

\* C17: when the client of an active cycle disconnects while the agent's
\* prompt call is in flight, the ActiveRequest is detached and the lock
\* released as a consequence of the disconnect, whether or not the agent
\* ever answers the prompt.
C17_DisconnectEndsCycle ==
    (cpc[1] = "closed" /\ pc[1] = "agent" /\ aw[1].op = "prompt")
        ~> (lock = 0 /\ active = 0)

\* The handler has refused the first line of connection c, which was m.
Refused(c, m) == req[c] = m /\ pc[c] = "end"

\* The rejection C18 describes, for the first lines in set S.
RejectedWithError(S) ==
    \A c \in Conns, m \in S :
        Refused(c, m) =>
            /\ Len(sent[c]) = 1
            /\ sent[c][1].type = "error"
            /\ wclosed[c]
            /\ calls[c] = <<>>
            /\ active # c
            /\ lock # c

\* The first lines that carry a JSON object of the wrong content.
WrongContentRejected == RejectedWithError({WrongType, NoPrompt, BadSessionId})

\* C18: a first message that is malformed (no JSON object, a type other
\* than "prompt", a missing or empty prompt, a session_id that is neither a
\* string nor null) is rejected with an error message and the connection
\* closed; no ActiveRequest is attached, no agent call made, the lock
\* released.
C18_MalformedRejected == RejectedWithError(Malformed)

----------------------------------------------------------------------------
(* Properties of a send without recovery *)

\* Connection 1 asked for a prompt without session id and its cycle has
\* written done after a normal return.
NoSessionCompleted ==
    /\ req[1].type = "prompt"
    /\ RequestSid(req[1]) = 0
    /\ pc[1] \in {"finishing", "wait_closed"}
    /\ outcome[1] = "ok"

BeforeDone == {"chunk", "tool", "permission_request"}

\* C19 for the sends whose first prompt ends normally, leaving aside what
\* follows the done message.
NoSessionNormal ==
    (NoSessionCompleted /\ FirstPromptGot(SvcSend, "end_turn")) =>
        LET d == Least({i \in 1..Len(sent[1]) : sent[1][i].type = "done"})
        IN  /\ calls[1] = RecoveryCalls(aw[1].mode, FreshSid(1, 0))
            /\ sent[1][d].sid = FreshSid(1, 0)
            /\ \A i \in 1..(d - 1) : sent[1][i].type \in BeforeDone
            /\ cpc[1] = "closed" => Get(store, cchat[1]) = FreshSid(1, 0)

\* C19: a prompt message without session id (null or a blank string) makes
\* the service create a session before prompting; on completion it sends a
\* terminal done message carrying that new, non-empty session id, preceded
\* only by chunk, tool and permission_request messages; once the socket
\* front end has processed the done, the store maps the chat id to that id.
C19_NoSessionCreatesOne ==
    /\ RequestSid(BlankSessionId) = 0
    /\ RequestSid(PromptMsg(0, "none")) = 0
    /\ (req[1].type = "prompt" /\ RequestSid(req[1]) = 0 /\ calls[1] # <<>>) =>
           calls[1][1] = <<"new", 0>>
    /\ NoSessionCompleted =>
           /\ Last(sent[1]) = DoneMsg(FreshSid(1, 0))
           /\ \A i \in 1..(Len(sent[1]) - 1) : sent[1][i].type \in BeforeDone
           /\ cpc[1] = "closed" => Get(store, cchat[1]) = FreshSid(1, 0)

\* The normal-completion claim on one send: the first prompt is the only
\* one, nothing is called after it and the id it was issued on is returned.
NormalReturnsUsed(S) ==
    LET p == FirstPrompt(S.cs)
    IN  FirstPromptGot(S, "end_turn") =>
            /\ PromptIdx(S.cs) = {p}
            /\ Len(S.cs) = p
            /\ S.state = "returned"
            /\ S.ret = S.cs[p][2]

\* The send was entered with session id s (not 0) and its first prompt has
\* ended normally: no session was created and s is returned.
SuppliedKept(S, s) ==
    (s # 0 /\ FirstPromptGot(S, "end_turn")) =>
        /\ NewIdx(S.cs) = {}
        /\ S.ret = s

\* C20, for the sends that were given a session id: when the first prompt
\* ends with a stop reason other than "refusal", the send returns the
\* session id it was given, unchanged: no session is created, exactly one
\* prompt call is issued, the done message carries the id the client
\* supplied and the mapping of the chat id still names it afterwards.  A
\* send that was given none returns the id its first prompt was issued on.
C20_NormalReturnsSame ==
    /\ NormalReturnsUsed(DirSend)
    /\ NormalReturnsUsed(SvcSend)
    /\ SuppliedKept(DirSend, Get(dinit, dchat))
    /\ SuppliedKept(SvcSend, RequestSid(req[1]))
    /\ (Get(dinit, dchat) # 0 /\ FirstPromptGot(DirSend, "end_turn")) =>
           Get(dstore, dchat) = Get(dinit, dchat)
    /\ (RequestSid(req[1]) # 0 /\ FirstPromptGot(SvcSend, "end_turn")) =>
           /\ DonesOf(sent[1]) = <<DoneMsg(RequestSid(req[1]))>>
           /\ cpc[1] = "closed" => Get(store, cchat[1]) = RequestSid(req[1])

\* Both front ends were given a mapped session, prompted it once and have
\* finished.
C20_Witness ==
    /\ Get(dinit, dchat) # 0
    /\ FirstPromptGot(DirSend, "end_turn") /\ dpc = "returned"
    /\ RequestSid(req[1]) # 0
    /\ FirstPromptGot(SvcSend, "end_turn") /\ SocketDone

\* C20 as stated, for every send: when the first prompt ends with a stop
\* reason other than "refusal", no session has been created, exactly one
\* prompt call is issued, and the done message carries the session id the
\* client supplied.
C20_NoSessionCreated ==
    /\ FirstPromptGot(DirSend, "end_turn") =>
           NewIdx(dcalls) = {} /\ Cardinality(PromptIdx(dcalls)) = 1
    /\ FirstPromptGot(SvcSend, "end_turn") =>
           /\ NewIdx(calls[1]) = {}
           /\ Cardinality(PromptIdx(calls[1])) = 1
           /\ DonesOf(sent[1]) = <<DoneMsg(RequestSid(req[1]))>>

----------------------------------------------------------------------------
(* Properties of the mode *)

\* The sessions the send has at its k-th call: the one it was entered with
\* (given) and those new_session has returned before.
Obtained(S, given, k) ==
    ({given} \ {0})
        \cup {FreshSid(1, Cardinality({i \in NewIdx(S.cs) : i < j}))
                  : j \in {i \in NewIdx(S.cs) : i < k /\ i <= Len(S.os) /\ S.os[i] = "ok"}}

\* The mode claim on one send.
ModeBeforePrompt(S, given) ==
    IF S.mode = "none"
    THEN \A k \in 1..Len(S.cs) : S.cs[k][1] # "mode"
    ELSE \A k \in PromptIdx(S.cs) :
            /\ k > 1
            /\ S.cs[k - 1] = <<"mode", S.cs[k][2]>>
            /\ S.os[k - 1] = "ok"
            /\ S.cs[k][2] \in Obtained(S, given, k - 1)

\* C21: with a mode specified, every prompt call of a send, the first and
\* any recovery retry, directly follows a successful set_session_mode call
\* on the very session that is prompted, a session the send was given or
\* has created before; with no mode specified set_session_mode is never
\* called.
C21_ModeBeforePrompt ==
    /\ dpc # "idle" => ModeBeforePrompt(DirSend, Get(dinit, dchat))
    /\ req[1].type = "prompt" => ModeBeforePrompt(SvcSend, RequestSid(req[1]))

\* With a mode, both front ends have prompted a mapped session, recovered
\* from "session not found" and prompted the replacement.
C21_Witness ==
    /\ DirSend.mode # "none" /\ SvcSend.mode # "none"
    /\ Get(dinit, dchat) # 0
    /\ FirstPromptGot(DirSend, "nf") /\ Cardinality(PromptIdx(dcalls)) = 2
    /\ FirstPromptGot(SvcSend, "nf") /\ Cardinality(PromptIdx(calls[1])) = 2

----------------------------------------------------------------------------
(* Properties of the agent's output *)

\* The handler of connection c is between the attach and its return.
Streaming(c) == pc[c] \in {"agent", "finishing", "wait_closed"}
TextsOf(q) == [i \in 1..Len(q) |-> q[i].text]
KindsOf(q) == [i \in 1..Len(q) |-> q[i].kind]
\* The non-empty chunk texts the agent produced for connection c, the chunk
\* texts and the tool events written to it, each in order.
ChunksProduced(c) ==
    TextsOf(SelectSeq(produced[c],
                      LAMBDA u : u.kind = "agent_message_chunk" /\ u.text # <<>>))
ChunksDelivered(c) == TextsOf(SelectSeq(sent[c], LAMBDA m : m.type = "chunk"))
ToolsProduced(c) == KindsOf(SelectSeq(produced[c], LAMBDA u : u.kind \in ToolKinds))
ToolsDelivered(c) ==
    [i \in 1..Len(SelectSeq(sent[c], LAMBDA m : m.type = "tool")) |->
        SelectSeq(sent[c], LAMBDA m : m.type = "tool")[i].tag]

\* A text with its leading newlines removed: its longest suffix that does
\* not start with a newline.
Stripped(t) ==
    LET k == Least({i \in 1..(Len(t) + 1) : i = Len(t) + 1 \/ t[i] # NL})
    IN  SubSeq(t, k, Len(t))

\* What has to be delivered of the chunks q when stripping is configured:
\* chunks of newlines only are withheld up to the first chunk with other
\* text, which loses its leading newlines; the rest is delivered as it is.
StrippedStream(q) ==
    LET solid == {i \in 1..Len(q) : Stripped(q[i]) # <<>>}
    IN  IF solid = {} THEN <<>>
        ELSE <<Stripped(q[Least(solid)])>> \o SubSeq(q, Least(solid) + 1, Len(q))

\* C22: with strip_leading_newlines set, the first chunk delivered to the
\* client in a cycle has its leading newlines removed and every later chunk
\* is delivered unmodified; with it unset every chunk is delivered
\* unmodified; chunks are delivered in the order the agent produced them.
C22_StripFirstChunk ==
    \A c \in Conns :
        Streaming(c) =>
            ChunksDelivered(c) =
                IF req[c].strip THEN StrippedStream(ChunksProduced(c))
                ELSE ChunksProduced(c)

\* With stripping set, a chunk of newlines only was withheld, the next
\* chunk lost its leading newline and a later one kept it.
C22_Witness ==
    /\ Streaming(1) /\ req[1].strip
    /\ ChunksProduced(1) = <<<<NL>>, <<NL, "h">>, <<NL, "h">>>>
    /\ ChunksDelivered(1) = <<<<"h">>, <<NL, "h">>>>

\* C23: a tool message is sent for a tool-call start or update only if the
\* request's show_tools flag is set; when it is not set no tool message is
\* sent during the cycle; a tool event produces no chunk message.
C23_ToolsOnlyIfShown ==
    \A c \in Conns :
        Streaming(c) =>
            /\ ToolsDelivered(c) = IF req[c].tools THEN ToolsProduced(c) ELSE <<>>
            /\ Len(ChunksDelivered(c)) <= Len(ChunksProduced(c))

\* Two tool events and a chunk reached a request without show_tools.
C23_Witness ==
    /\ Streaming(1)
    /\ Len(ToolsProduced(1)) = 2
    /\ ~req[1].tools
    /\ ChunksProduced(1) # <<>>

----------------------------------------------------------------------------
(* Properties of the mapping store *)

\* Invocation i completes an upsert that succeeds.
Upserted(i) == inv[i].pc = "writing" /\ inv'[i].pc = "ready" /\ dbok

\* C24: after a successful upsert, get returns its session id and the
\* timestamp taken at its call, also when the session id is the one already
\* stored; when it follows another upsert for the chat id (the row it found
\* at its call is the row it replaces), updated_at is not earlier than the
\* one that upsert wrote.
C24_UpsertThenGet ==
    [][\A i \in Invs :
          Upserted(i) =>
              LET was == TableGet(table, inv[i].chat)
                  r == SessionStoreGet(table', inv[i].chat, TRUE)
              IN  /\ r.sid = inv[i].sid
                  /\ r.at = inv[i].ts
                  /\ (was # NoRow /\ was = inv[i].seen) => r.at >= was.at]_vars

\* An invocation has upserted the same session id twice, and get returns it
\* with the later timestamp.
C24_Witness ==
    /\ inv[1].pc = "ready" /\ inv[1].n = 2
    /\ inv[1].seen = Row(inv[1].chat, inv[1].sid, 1)
    /\ TableGet(table, inv[1].chat) = Row(inv[1].chat, inv[1].sid, 2)

\* C25: under any interleaving of invocations on the same and on different
\* chat ids the table holds at most one row per chat id, a row once created
\* is never deleted, an upsert leaves the rows of all other chat ids as
\* they are, and of two invocations racing on a chat id the session id that
\* survives is the one of the upsert that ran last.
C25_OneMappingLastWins ==
    /\ [](\A ch \in ChatIds : Cardinality(RowsOf(table, ch)) <= 1)
    /\ [][/\ \A ch \in ChatIds : RowsOf(table, ch) # {} => RowsOf(table', ch) # {}
          /\ \A i \in Invs :
                 inv[i].pc = "writing" /\ inv'[i].pc = "ready" =>
                     \A ch \in ChatIds \ {inv[i].chat} :
                         RowsOf(table', ch) = RowsOf(table, ch)
          /\ \A i \in Invs :
                 Upserted(i) => MappingOf(table')[inv[i].chat] = inv[i].sid
          /\ table' # table => \E i \in Invs : Upserted(i)]_vars

\* Two invocations have raced on one chat id with different session ids;
\* the one whose upsert ran last holds the row although it took its
\* timestamp first.
C25_Witness ==
    /\ inv[1].chat = inv[2].chat
    /\ inv[1].pc = "ready" /\ inv[1].n = 1
    /\ inv[2].pc = "ready" /\ inv[2].n = 1
    /\ inv[1].sid # inv[2].sid
    /\ inv[2].ts < inv[1].ts
    /\ TableGet(table, inv[1].chat) = Row(inv[1].chat, inv[2].sid, inv[2].ts)
    /\ "b" \in {r.chat : r \in table}

\* C26: an error of the mapping store ends no invocation.  While the
\* database fails no mapping changes; a get that fails counts as "no
\* mapping": the direct front end's first agent call is new_session and the
\* socket front end's request carries a null session id; a new_session
\* whose upsert fails is followed by the next agent call on the session
\* just created, the read loop of the socket front end ends on the done
\* message as it does otherwise, and a send that returns returns the
\* session it prompted last.
C26_StoreErrorsNotFatal ==
    /\ [][/\ ~dbok => store' = store /\ dstore' = dstore
          /\ (~dbok /\ dpc = "idle" /\ dpc' = "agent") =>
                 dcalls' = <<<<"new", 0>>>>
          /\ (~dbok /\ cpc[1] = "idle" /\ cpc'[1] = "connected") => csid'[1] = 0
          /\ (cpc[1] = "connected" /\ cin'[1] # cin[1] /\ csid[1] = 0) =>
                 cin'[1][Len(cin'[1])].sidForm = "null"
          /\ (~dbok /\ dpc = "agent" /\ dmade' # dmade) =>
                 /\ dpc' = "agent"
                 /\ dcalls'[Len(dcalls')][2] = FreshSid(1, dmade)
          /\ (~dbok /\ cpc[1] = "reading" /\ cpc'[1] = "closed"
                 /\ \E i \in 1..Len(sent[1]) : sent[1][i] = DoneMsg(hsid[1])
                 /\ hsid[1] # 0) =>
                 cgot'[1] = hsid[1]]_vars
    /\ [](dpc = "returned" => dret # 0 /\ dcalls[Len(dcalls)] = <<"prompt", dret>>)

\* Both invocations found the database failing at their get, although the
\* chat id had a mapping, and at their upsert: the direct one created a
\* session first and returned it, the socket one sent a null session id
\* and read the done message of the session created for it; the mappings
\* are what they were.
C26_Witness ==
    /\ dpc = "returned" /\ dinit[dchat] # 0
    /\ dcalls[1] = <<"new", 0>> /\ dret = FreshSid(1, 0) /\ dstore = dinit
    /\ cpc[1] = "closed" /\ csid[1] = 0 /\ store[cchat[1]] # 0
    /\ cgot[1] # 0 /\ store[cchat[1]] # cgot[1] /\ store = dinit

\* The first done message among the messages q, as a sequence of at most
\* one message.
FirstDone(q) == SubSeq(DonesOf(q), 1, IF DonesOf(q) = <<>> THEN 0 ELSE 1)

\* C27: the mapping store of the socket front end changes only in the step
\* that ends the read loop on a done message (the first one read) that
\* carries a session id, and then to that id under the invocation's chat id;
\* that step ends the invocation, so nothing is read or written after it.
\* When the loop ends otherwise: at end of stream, on a read failure, after
\* a busy error and the close, or on a done message without a session id,
\* the store is what it was.
C27_StoreOnlyOnDone ==
    [][/\ cpc[1] = "closed" => cpc'[1] = "closed" /\ store' = store
       /\ store' # store =>
              /\ cpc[1] = "reading" /\ cpc'[1] = "closed"
              /\ FirstDone(sent[1]) # <<>>
              /\ FirstDone(sent[1])[1].sid # 0
              /\ store' = Upsert(store, cchat[1], FirstDone(sent[1])[1].sid)
       /\ (cpc[1] = "reading" /\ cpc'[1] = "closed"
              /\ \A m \in Range(FirstDone(sent[1])) : m.sid = 0) =>
              store' = store]_vars

\* The invocation has read a chunk and a done message with a session id
\* other than the mapped one, and the store holds that id.
C27_Witness ==
    /\ cpc[1] = "closed"
    /\ sent[1] = <<ChunkMsg, DoneMsg(2)>>
    /\ cchat[1] = "a" /\ csid[1] = 1
    /\ store = [ch \in ChatIds |-> IF ch = "a" THEN 2 ELSE 0]

\* The service was busy: the invocation has read the error and the end of
\* the stream, and the mapping is the one it started with.
C27_BusyWitness ==
    /\ cpc[1] = "closed"
    /\ sent[1] = <<ErrorMsg("busy")>> /\ wclosed[1]
    /\ cchat[1] = "a" /\ store["a"] = 1

\* C28: a permission_response the service received while no permission
\* request was pending is discarded: when a permission_request message is
\* written and its request starts to wait, the permission queue holds no
\* option id, so that only a response sent after the message can resolve
\* the request.
C28_UnsolicitedDiscarded ==
    [][\A c \in Conns :
          (pend[c] = <<>> /\ pend'[c] # <<>>) =>
              \A i \in 1..Len(pq[c]) : pq[c][i] = "none"]_vars

\* C29: whenever a permission request resolves to "selected", in the
\* direct front end or in the proxy service (by auto-approval or by the
\* answer the socket front end relayed), the selected option id is one of
\* the option ids the agent offered in the request.
C29_SelectedWasOffered ==
    /\ \A i \in 1..Len(dperm) :
           dperm[i].out = "selected" => dperm[i].opt \in Range(pin.opts)
    /\ \A i \in 1..Len(pres[1]) :
           pres[1][i].out = "selected" => pres[1][i].opt \in Range(pin.opts)

\* The chunk, tool and permission_request messages among the messages q.
AgentOutput(q) ==
    SelectSeq(q, LAMBDA m : m.type \in {"chunk", "tool", "permission_request"})

\* C30: agent output reaches only the connection whose cycle produced it:
\* a step in which a chunk, tool or permission_request message is written
\* to a connection is never the arrival of an update for a session other
\* than the one that connection's cycle is prompting; and an event that
\* arrives while no ActiveRequest is attached writes no message.
C30_OutputOfOwnSession ==
    [][/\ \A c \in Conns :
              AgentOutput(sent'[c]) # AgentOutput(sent[c]) => stray' = stray
       /\ active = 0 => \A c \in Conns : AgentOutput(sent'[c]) = AgentOutput(sent[c])]_vars

\* Connection c is accepted in this step: its handler starts.
Accepted(c) == pc[c] = "none" /\ pc'[c] # "none"
\* The handler of connection c holds the lock and waits for the first line.
AwaitingFirst(c) == pc[c] = "read_first" /\ ~InputReady(c)

\* C31: the handler holds the request lock from its start, before the
\* prompt message is read: while it waits for the first line it holds the
\* lock with no request attached and no agent call made; it leaves that
\* wait only when the peer has sent a line or has disconnected; every
\* connection accepted meanwhile is rejected as busy; and no handler ever
\* waits for the lock, the busy test and the acquisition being one step.
C31_LockBeforePrompt ==
    /\ [](\A c \in Conns :
             /\ pc[c] = "read_first" =>
                    lock = c /\ active = 0 /\ calls[c] = <<>> /\ Calling = {}
             /\ pc[c] # "await_lock")
    /\ [][\A c \in Conns :
             /\ (pc[c] = "read_first" /\ pc'[c] # "read_first") => InputReady(c)
             /\ AwaitingFirst(c) =>
                    \A d \in Conns \ {c} :
                        Accepted(d) =>
                            /\ busyAt'[d] /\ pc'[d] = "end" /\ wclosed'[d]
                            /\ sent'[d] = <<ErrorMsg("busy")>>
                            /\ lock' = c]_vars

\* A connection has been rejected as busy while the only other one has
\* not sent its first line: no prompt is in flight.
C31_Witness ==
    \E c, d \in Conns :
        /\ c # d
        /\ AwaitingFirst(c) /\ cpc[c] = "connected" /\ lock = c
        /\ busyAt[d] /\ sent[d] = <<ErrorMsg("busy")>>
        /\ Calling = {} /\ active = 0

\* The concatenation of the texts q.
RECURSIVE Concat(_)
Concat(q) == IF q = <<>> THEN <<>> ELSE Head(q) \o Concat(Tail(q))

\* The text of all chunks the agent produced for connection c, empty ones
\* included.
AgentText(c) ==
    Concat(TextsOf(SelectSeq(produced[c], LAMBDA u : u.kind = "agent_message_chunk")))

\* C32: no empty chunk is delivered; with strip_leading_newlines set, as
\* long as the agent has produced newlines only, nothing is delivered and
\* the output has not started; the concatenation of the chunk texts
\* delivered in a cycle is the concatenation of the agent's chunk texts of
\* the cycle without its leading newlines when the flag is set, and that
\* concatenation itself when it is not; the direct front end writes the
\* same text for the same updates under either flag.
C32_ConcatenationStripped ==
    \A c \in Conns :
        Streaming(c) =>
            /\ \A i \in 1..Len(ChunksDelivered(c)) : ChunksDelivered(c)[i] # <<>>
            /\ (req[c].strip /\ Stripped(AgentText(c)) = <<>>) =>
                   ChunksDelivered(c) = <<>> /\ ~started[c]
            /\ Concat(ChunksDelivered(c)) =
                   IF req[c].strip THEN Stripped(AgentText(c)) ELSE AgentText(c)
            /\ \A st \in BOOLEAN :
                   CliSessionUpdates(st, FALSE, produced[c]) =
                       IF st THEN Stripped(AgentText(c)) ELSE AgentText(c)

\* With stripping set the agent produced a chunk of a newline, an empty
\* chunk and a chunk that starts with a newline: one chunk was delivered,
\* the text without the two leading newlines.
C32_Witness ==
    /\ Streaming(1) /\ req[1].strip
    /\ TextsOf(produced[1]) = <<<<NL>>, <<>>, <<NL, "h">>>>
    /\ ChunksDelivered(1) = <<<<"h">>>>
    /\ AgentText(1) = <<NL, NL, "h">>

====
